---- MODULE Spec2Model ----
(***************************************************************************)
(* ClockSpeeds: CPU monitoring and control for Linux.                      *)
(*                                                                         *)
(* The module models, from the Python sources, the command builders of     *)
(* CPUManager, the privileged executor, the settings ledger and the boot   *)
(* script generator of SettingsApplier, the load computation of the       *)
(* sampling engine, the memoizing directory walk and the start-up of the   *)
(* CPU file locator.  Each group of operations has its own state           *)
(* variables and its own specification; a specification parks the          *)
(* variables of the other groups at a fixed value.                         *)
(*                                                                         *)
(* Conventions.  None stands for Python's None.  A shell command           *)
(* "echo V | [sudo] tee F > /dev/null" is the record Write(V, F): the      *)
(* value written and the file it is written to.  A control file path is    *)
(* the pair <<role, thread>> (singleton files: a string).  An exception    *)
(* raised by a Python expression is the string naming its class.           *)
(***************************************************************************)
EXTENDS Integers, Sequences, FiniteSets, TLC

VARIABLES
    \* ---- PBO command builders (CPUManager and SettingsApplier)
    pbo_offset_value,      \* int(self.pbo_curve_scale.get_value()) / ledger "pbo_offset"
    physical_cores,        \* parse_cpu_info(...)[2]
    manager_pbo_command,   \* result of CPUManager...create_pbo_command, or None
    applier_pbo_command,   \* result of SettingsApplier.create_pbo_command, or None
    \* ---- sampling engine: load
    prev_stat,             \* CPUManager.prev_stat
    prev_loads,            \* CPUManager.prev_loads
    calc_args,             \* arguments of the last calculate_load call, or None
    calc_result,           \* what that call returned or raised, or None
    \* ---- DirectoryCache.cached_directory_walk
    tree,                  \* the file system walked: real directories, symlinks, files
    cache,                 \* DirectoryCache.cache: path -> (subdirs, files)
    walk_state,            \* "idle" | "running" | "done" (generator exhausted)
    base_path,             \* argument of the walk in progress
    stack,                 \* its local stack
    seen_paths,            \* its local seen_paths
    yielded,               \* the triples it has yielded so far
    \* ---- CPUFileSearch: start-up of the locator
    machine,               \* what /sys and /proc hold, and os.cpu_count()
    cache_file,            \* ~/.cache/ClockSpeeds/directory_cache.json, or None
    locator,               \* the CPUFileSearch object of the running process, or None
    ctor_outcome,          \* how the last CPUFileSearch(...) ended
    rediscovered,          \* whether that construction ran initialize_cpu_files
    \* ---- control tab, privileged executor, ledger, boot script
    cpu_file_search,       \* the CPUFileSearch object the control tab works on
    min_scales,            \* thread -> value of its minimum frequency scale
    max_scales,            \* thread -> value of its maximum frequency scale
    cpu_max_min_checkbuttons, \* thread -> whether its checkbutton is active
    apply_max_min_button,  \* whether the Apply Speed Limits button is sensitive
    governor_dropdown,     \* [selected, sensitive] of the governor dropdown
    epb_dropdown,          \* [selected, sensitive] of the energy-perf-bias dropdown
    applied_settings,      \* SettingsApplier.applied_settings, the ledger
    settings_file,         \* /tmp/clockspeeds_settings.json, or None
    running,               \* the threads run_pkexec_command started, still running
    idle_queue,            \* callbacks handed to GLib.idle_add, not yet run
    last_call,             \* the last run of a control handler: what it built and started
    user_edits,            \* scale moves and checkbutton toggles made so far
    tmp_script,            \* /tmp/apply_clockspeeds_settings.sh, or None
    script_calls,          \* the last two calls of create_apply_script
    \* ---- CPU boost
    boost_files,           \* boost control file -> its content ("0" or "1")
    boost_checkbutton,     \* [active, sensitive, visible] of the boost checkbutton
    boost_enabled,         \* global_state.boost_enabled, or None
    control_task_id,       \* CPUManager.control_task_id: a GLib source id, or None
    glib_control_timeouts, \* ids of the timeout sources GLib holds for run_control_tasks
    current_page,          \* the notebook page shown: 0 monitor, 1 control
    \* ---- PrivilegedActions.run_pkexec_command
    pk_calls,              \* the calls made: callbacks supplied, thread position, outcome
    glib_idle,             \* sources GLib.idle_add holds for the main loop
    callback_log,          \* the callbacks run so far, each with the thread it ran on
    \* ---- the monitor timer
    monitor_task_id,       \* CPUManager.monitor_task_id: a GLib source id, or None
    glib_timeouts,         \* ids of the timeout sources GLib holds for run_monitor_tasks
    last_tick,             \* the last run of run_monitor_tasks: which step raised, or None
    \* ---- thermal throttle detection
    throttle_cpu_file_search,    \* the CPUFileSearch object update_throttle reads
    prev_package_throttle_time,  \* CPUManager.prev_package_throttle_time
    is_throttling,               \* CPUManager.is_throttling
    thermal_throttle_label,      \* [visible, markup] of the throttle label
    throttle_tick,               \* the last run of update_throttle: what it read, or None
    \* ---- parse_cpu_info: the number of physical cores
    cpuinfo,               \* what parse_cpu_info collected from /proc/cpuinfo
    determined_cores,      \* what _determine_physical_cores returned for it, or None
    \* ---- the update interval of the timers
    update_interval,       \* CPUManager.update_interval, in tenths of a second
    \* ---- the Apply TDP and Apply PBO buttons
    apply_tdp_button,      \* whether the Apply TDP button is sensitive
    apply_pbo_button       \* whether the Apply PBO button is sensitive

pboVars  == <<pbo_offset_value, physical_cores, manager_pbo_command, applier_pbo_command>>
loadVars == <<prev_stat, prev_loads, calc_args, calc_result>>
walkVars == <<tree, cache, walk_state, base_path, stack, seen_paths, yielded>>
locVars  == <<machine, cache_file, locator, ctor_outcome, rediscovered>>
ctlVars  == <<cpu_file_search, min_scales, max_scales, cpu_max_min_checkbuttons,
              apply_max_min_button, governor_dropdown, epb_dropdown, applied_settings,
              settings_file, running, idle_queue, last_call, user_edits, tmp_script,
              script_calls>>
boostVars == <<boost_files, boost_checkbutton, boost_enabled, control_task_id,
               glib_control_timeouts, current_page>>
execVars == <<pk_calls, glib_idle, callback_log>>
monVars  == <<monitor_task_id, glib_timeouts, last_tick>>
thrVars  == <<throttle_cpu_file_search, prev_package_throttle_time, is_throttling,
              thermal_throttle_label, throttle_tick>>
physVars == <<cpuinfo, determined_cores>>
tabVars  == <<update_interval>>
btnVars  == <<apply_tdp_button, apply_pbo_button>>
moreVars == <<thrVars, physVars, tabVars, btnVars>>
extVars  == <<boostVars, execVars, monVars, moreVars>>
vars     == <<pboVars, loadVars, walkVars, locVars, ctlVars, extVars>>

\* Python's None; Ok(v) a value where None or an exception is possible too;
\* Raised(e) an exception of class e leaving the expression.
None == [none |-> TRUE]
Ok(v) == [ok |-> v]
Raised(e) == [raised |-> e]
IsOk(r) == DOMAIN r = {"ok"}

\* "echo <value> | tee <file> > /dev/null"
Write(value, file) == [echo |-> value, tee |-> file]

-----------------------------------------------------------------------------
(* Python integer operators on naturals *)

RECURSIVE BitAnd(_, _)
\* a & b
BitAnd(a, b) ==
    IF a = 0 \/ b = 0 THEN 0
    ELSE (IF a % 2 = 1 /\ b % 2 = 1 THEN 1 ELSE 0) + 2 * BitAnd(a \div 2, b \div 2)

RECURSIVE BitOr(_, _)
\* a | b
BitOr(a, b) ==
    IF a = 0 THEN b
    ELSE IF b = 0 THEN a
    ELSE (IF a % 2 = 1 \/ b % 2 = 1 THEN 1 ELSE 0) + 2 * BitOr(a \div 2, b \div 2)

RECURSIVE Shl(_, _)
\* a << n
Shl(a, n) == IF n = 0 THEN a ELSE Shl(2 * a, n - 1)

-----------------------------------------------------------------------------
(* PBO curve offset: the SMU argument encoding *)

\* Bounds of the inputs.
MaxSmallOffset == 3
MaxPhysicalCores == 16

PboOffsets == (0 .. MaxSmallOffset) \cup {30, 255, 256, 4095, 32767, 32768, 65534, 65535}
PboCores == {1, 2, 8, 9, 10} \cup {MaxPhysicalCores}

SmuArgsFile == "/sys/kernel/ryzen_smu_drv/smu_args"
Mp1SmuCmdFile == "/sys/kernel/ryzen_smu_drv/mp1_smu_cmd"

\* The body both create_pbo_command functions share once physical_cores is known.
PboCommands(offset_value, cores) ==
    LET negated == -offset_value
        twos == IF negated < 0 THEN Shl(1, 16) + negated ELSE negated
        smu_args_value(core_id) ==
            BitOr(Shl(BitOr(Shl(BitAnd(core_id, 8), 5), BitAnd(core_id, 7)), 20),
                  BitAnd(twos, 65535))
    IN  [k \in 1 .. 2 * cores |->
            IF k % 2 = 1 THEN Write(smu_args_value((k - 1) \div 2), SmuArgsFile)
                         ELSE Write("0x35", Mp1SmuCmdFile)]

\* CPUManager.set_pbo_curve_offset.create_pbo_command
CPUManager_create_pbo_command(offset_value, cores) == Ok(PboCommands(offset_value, cores))

\* The methods class SettingsApplier defines (it has no base class).
SettingsApplierMethods ==
    {"__init__", "initialize_settings_file", "cleanup", "setup_gui_components",
     "load_settings", "save_settings", "update_checkbutton_sensitivity",
     "revert_checkbutton_state", "create_apply_script", "create_pbo_command",
     "create_systemd_service", "remove_systemd_service",
     "created_systemd_info_window", "removed_systemd_info_window"}

\* SettingsApplier.create_pbo_command: its first statement calls
\* self.parse_cpu_info, an attribute lookup on SettingsApplier.
SettingsApplier_create_pbo_command(offset_value, cores) ==
    IF "parse_cpu_info" \notin SettingsApplierMethods
    THEN Raised("AttributeError")
    ELSE Ok(PboCommands(offset_value, cores))

PboInit ==
    /\ pbo_offset_value \in PboOffsets
    /\ physical_cores \in PboCores
    /\ manager_pbo_command = None
    /\ applier_pbo_command = None

PboIdle ==
    /\ pbo_offset_value = 0
    /\ physical_cores = 1
    /\ manager_pbo_command = None
    /\ applier_pbo_command = None

\* set_pbo_curve_offset builds its command (cpu_management.py 1316-1317).
ManagerBuildPbo ==
    /\ manager_pbo_command' = CPUManager_create_pbo_command(pbo_offset_value, physical_cores)
    /\ UNCHANGED <<pbo_offset_value, physical_cores, applier_pbo_command>>
    /\ UNCHANGED <<loadVars, walkVars, locVars, ctlVars, extVars>>

\* create_apply_script builds the command for a ledger "pbo_offset" (apply_settings.py 186-188).
ApplierBuildPbo ==
    /\ applier_pbo_command' = SettingsApplier_create_pbo_command(pbo_offset_value, physical_cores)
    /\ UNCHANGED <<pbo_offset_value, physical_cores, manager_pbo_command>>
    /\ UNCHANGED <<loadVars, walkVars, locVars, ctlVars, extVars>>

\* The user moves the PBO scale.
MovePboScale ==
    /\ \E v \in PboOffsets : pbo_offset_value' = v
    /\ pbo_offset_value' # pbo_offset_value
    /\ manager_pbo_command' = None
    /\ applier_pbo_command' = None
    /\ UNCHANGED physical_cores
    /\ UNCHANGED <<loadVars, walkVars, locVars, ctlVars, extVars>>

PboNext == ManagerBuildPbo \/ ApplierBuildPbo \/ MovePboScale

-----------------------------------------------------------------------------
(* Sampling engine: CPU load from two /proc/stat snapshots *)

\* Number of per-thread "cpuN" rows a snapshot may hold besides the "cpu" row.
MaxStatThreads == 1

\* (user, nice, system, idle) counters a row may carry.
StatCounters == {<<0, 0, 0, 0>>, <<50, 0, 50, 100>>, <<40, 0, 50, 130>>}

\* The row ids of a snapshot, in file order: "cpu", then some of the threads' rows.
StatIds == {<<"cpu">>} \cup {<<"cpu", t>> : t \in {"cpu0", "cpu1"}}
               \cup (IF MaxStatThreads >= 2 THEN {<<"cpu", "cpu0", "cpu1">>} ELSE {})

\* What read_stat_file can return for a readable stat file: a list of
\* (id, user, nice, system, idle) rows, empty when no line qualifies.
Snapshots ==
    {<<>>} \cup
    UNION {{[k \in 1 .. Len(ids) |-> <<ids[k]>> \o cs[k]] :
               cs \in [1 .. Len(ids) -> StatCounters]} : ids \in StatIds}

RECURSIVE Gcd(_, _)
Gcd(a, b) == IF b = 0 THEN a ELSE Gcd(b, a % b)

Abs(x) == IF x < 0 THEN -x ELSE x

\* The float n / d (d # 0) as a reduced fraction with a positive denominator.
Frac(n, d) ==
    LET g == Gcd(Abs(n), Abs(d))
        sgn == IF d < 0 THEN -1 ELSE 1
    IN  [num |-> sgn * (n \div g), den |-> sgn * (d \div g)]

\* Python's n / d on integers.
TrueDiv(n, d) == IF d = 0 THEN Raised("ZeroDivisionError") ELSE Ok(Frac(n, d))

\* calc_load without its "if total_diff:" test.
calc_load_unguarded(prev_row, curr_row) ==
    LET total_diff == (curr_row[2] + curr_row[3] + curr_row[4] + curr_row[5])
                      - (prev_row[2] + prev_row[3] + prev_row[4] + prev_row[5])
        idle_diff == curr_row[5] - prev_row[5]
    IN  TrueDiv(100 * (total_diff - idle_diff), total_diff)

\* CPUManager.calculate_load.calc_load on one (previous row, current row) pair.
calc_load(prev_row, curr_row) ==
    LET total_diff == (curr_row[2] + curr_row[3] + curr_row[4] + curr_row[5])
                      - (prev_row[2] + prev_row[3] + prev_row[4] + prev_row[5])
        idle_diff == curr_row[5] - prev_row[5]
    IN  IF total_diff # 0
        THEN TrueDiv(100 * (total_diff - idle_diff), total_diff)
        ELSE Ok(Frac(0, 1))

Min(a, b) == IF a <= b THEN a ELSE b

\* CPUManager.calculate_load: dict(map(calc_load, zip(prev_stat, curr_stat))),
\* keyed by the previous row's id.
calculate_load(prev, curr) ==
    IF prev = None \/ curr = None THEN Raised("TypeError")
    ELSE LET n == Min(Len(prev.ok), Len(curr.ok))
             one(k) == calc_load(prev.ok[k], curr.ok[k])
         IN  IF \E k \in 1 .. n : ~IsOk(one(k))
             THEN one(CHOOSE k \in 1 .. n : ~IsOk(one(k)) /\ \A j \in 1 .. k - 1 : IsOk(one(j)))
             ELSE Ok([id \in {prev.ok[k][1] : k \in 1 .. n} |->
                        LET last == CHOOSE k \in 1 .. n :
                                       /\ prev.ok[k][1] = id
                                       /\ \A j \in k + 1 .. n : prev.ok[j][1] # id
                        IN  one(last).ok])

LoadInit ==
    /\ prev_stat \in {Ok(s) : s \in Snapshots}
    /\ prev_loads = Ok(<<>>)
    /\ calc_args = None
    /\ calc_result = None

LoadIdle ==
    /\ prev_stat = None
    /\ prev_loads = None
    /\ calc_args = None
    /\ calc_result = None

\* CPUManager.update_cpu_load on a tick whose read_stat_file returns curr_stat.
update_cpu_load(curr_stat) ==
    IF curr_stat = None \/ curr_stat = Ok(<<>>)
    THEN UNCHANGED loadVars
    ELSE LET loads == calculate_load(prev_stat, curr_stat)
         IN  /\ calc_args' = Ok(<<prev_stat, curr_stat>>)
             /\ calc_result' = loads
             /\ IF IsOk(loads)
                THEN /\ prev_loads' = IF loads.ok # <<>> /\ loads # prev_loads
                                      THEN loads ELSE prev_loads
                     /\ prev_stat' = curr_stat
                ELSE UNCHANGED <<prev_stat, prev_loads>>

MonitorTickLoad ==
    /\ \E s \in Snapshots : update_cpu_load(Ok(s))
    /\ UNCHANGED <<pboVars, walkVars, locVars, ctlVars, extVars>>

LoadNext == MonitorTickLoad

-----------------------------------------------------------------------------

(* DirectoryCache: the memoizing directory walk *)

\* A path is the sequence of its names; a trailing "" is a trailing slash
\* ("/r/" is <<"r", "">>).  The trees walked are readable throughout.
TreeA == [dirs  |-> {<<"r">>, <<"r", "a">>, <<"r", "a", "b">>, <<"r", "c">>},
          links |-> {<<"r", "a", "b", "loop">>},
          files |-> {<<"r", "c", "f">>}]
TreeB == [dirs  |-> {<<"r">>, <<"r", "a">>},
          links |-> {<<"r", "a", "up">>, <<"r", "self">>},
          files |-> {}]
Trees == {TreeA, TreeB}

Last(p) == p[Len(p)]
Front(p) == SubSeq(p, 1, Len(p) - 1)

\* The directory a path string names.
Dir(path) == IF Last(path) = "" THEN Front(path) ELSE path

\* os.path.join(path, name)
PathJoin(path, name) == Dir(path) \o <<name>>

\* The names os.scandir(path) lists.
EntryNames(t, path) ==
    {Last(q) : q \in {q \in t.dirs \cup t.links \cup t.files :
                         Len(q) = Len(Dir(path)) + 1 /\ Front(q) = Dir(path)}}

\* entry.is_dir(follow_symlinks=False): a symlink to a directory is no directory.
IsDirNoFollow(t, full_path) == full_path \in t.dirs

\* os.path.realpath of an entry that is a real directory, reached from a base
\* that is a real directory.
Realpath(full_path) == full_path

\* The orders in which os.scandir may list a set of names.
Orders(names) ==
    {o \in [1 .. Cardinality(names) -> names] :
        \A i, j \in 1 .. Cardinality(names) : i # j => o[i] # o[j]}

\* The bases a caller walks: a directory of the tree, with or without the
\* trailing slash of '/sys/', '/sys/class/'.
Bases(t) == t.dirs \cup {d \o <<"">> : d \in t.dirs}

WalkInit ==
    /\ tree \in Trees
    /\ cache = {}
    /\ walk_state = "idle"
    /\ base_path = <<>>
    /\ stack = <<>>
    /\ seen_paths = {}
    /\ yielded = <<>>

WalkIdle ==
    /\ tree = TreeB
    /\ cache = {}
    /\ walk_state = "idle"
    /\ base_path = <<>>
    /\ stack = <<>>
    /\ seen_paths = {}
    /\ yielded = <<>>

\* DirectoryCache.get(path): the cached entry, or None.
CacheGet(path) ==
    IF \E e \in cache : e.path = path
    THEN Ok(CHOOSE e \in cache : e.path = path)
    ELSE None

\* DirectoryCache.add(path, subdirs, files)
CacheAdd(path, subdirs, files) ==
    {e \in cache : e.path # path} \cup {[path |-> path, subdirs |-> subdirs, files |-> files]}

\* A caller starts iterating cached_directory_walk(base) (lines 77-78).
StartWalk ==
    /\ walk_state # "running"
    /\ \E b \in Bases(tree) :
          /\ base_path' = b
          /\ stack' = <<b>>
    /\ seen_paths' = {}
    /\ yielded' = <<>>
    /\ walk_state' = "running"
    /\ UNCHANGED <<tree, cache>>
    /\ UNCHANGED <<pboVars, loadVars, locVars, ctlVars, extVars>>

\* What the scan of path appends, listing its entries in order o (lines 92-101).
ScanSubdirs(path, o, seen) ==
    LET keep(n) == /\ IsDirNoFollow(tree, PathJoin(path, n))
                   /\ Realpath(PathJoin(path, n)) \notin seen
    IN  SelectSeq(o, keep)

ScanFiles(path, o) ==
    LET other(n) == ~IsDirNoFollow(tree, PathJoin(path, n))
    IN  SelectSeq(o, other)

\* One iteration of the while loop (lines 80-107).
WalkStep ==
    /\ walk_state = "running"
    /\ stack # <<>>
    /\ LET path == Last(stack)
           rest == Front(stack)
       IN  IF path \in seen_paths
           THEN /\ stack' = rest
                /\ UNCHANGED <<seen_paths, cache, yielded>>
           ELSE LET seen == seen_paths \cup {path}
                    cached == CacheGet(path)
                IN  /\ seen_paths' = seen
                    /\ IF cached # None
                       THEN /\ yielded' = Append(yielded, cached.ok)
                            /\ stack' = rest
                            /\ UNCHANGED cache
                       ELSE \E o \in Orders(EntryNames(tree, path)) :
                               LET subdirs == ScanSubdirs(path, o, seen)
                                   files == ScanFiles(path, o)
                               IN  /\ stack' = rest \o [k \in 1 .. Len(subdirs) |->
                                                           PathJoin(path, subdirs[k])]
                                   /\ cache' = CacheAdd(path, subdirs, files)
                                   /\ yielded' = Append(yielded,
                                          [path |-> path, subdirs |-> subdirs, files |-> files])
    /\ UNCHANGED <<tree, walk_state, base_path>>
    /\ UNCHANGED <<pboVars, loadVars, locVars, ctlVars, extVars>>

\* The while loop ends: the generator is exhausted.
WalkEnd ==
    /\ walk_state = "running"
    /\ stack = <<>>
    /\ walk_state' = "done"
    /\ UNCHANGED <<tree, cache, base_path, stack, seen_paths, yielded>>
    /\ UNCHANGED <<pboVars, loadVars, locVars, ctlVars, extVars>>

\* The caller returns out of its for loop (as find_cpu_directory does at its
\* first match) and drops the generator.
AbandonWalk ==
    /\ walk_state = "running"
    /\ yielded # <<>>
    /\ walk_state' = "idle"
    /\ UNCHANGED <<tree, cache, base_path, stack, seen_paths, yielded>>
    /\ UNCHANGED <<pboVars, loadVars, locVars, ctlVars, extVars>>

WalkNext == StartWalk \/ WalkStep \/ WalkEnd \/ AbandonWalk

-----------------------------------------------------------------------------

(* CPUFileSearch: discovery, the persisted table and its reload *)

\* Largest os.cpu_count() of a machine.
MaxLocThreads == 2

\* A path: <<file name, thread>>, thread -1 for a file that is not per thread.
\* PathNone is None where a path is expected.
PathNone == <<"None", -1>>
Path(file, thread) == <<file, thread>>
Truthy(path) == path # PathNone

\* CPUFileSearch.cpufreq_file_paths (lines 127-136) and the two further roles
\* of cpu_files (lines 143-144).
cpufreq_file_paths ==
    [governor_files |-> "scaling_governor", speed_files |-> "scaling_cur_freq",
     scaling_max_files |-> "scaling_max_freq", scaling_min_files |-> "scaling_min_freq",
     cpuinfo_max_files |-> "cpuinfo_max_freq", cpuinfo_min_files |-> "cpuinfo_min_freq",
     available_governors_files |-> "scaling_available_governors", boost_files |-> "boost"]

CpuFilesRoles ==
    DOMAIN cpufreq_file_paths \cup {"package_throttle_time_files", "energy_perf_bias_files"}

\* The machines: which base directory the walk of /sys/ meets first ("none",
\* "intel" for intel_pstate, "other" for cpufreq), the thread count, the threads
\* whose cpuN directory has a cpufreq directory, and which single files exist.
Machines ==
    {m \in [cpu_dir : {"none", "intel", "other"}, threads : 1 .. MaxLocThreads,
             cpufreq : SUBSET (0 .. MaxLocThreads - 1), no_turbo : BOOLEAN,
             stat : BOOLEAN, thermal : BOOLEAN] :
        m.cpufreq \subseteq 0 .. m.threads - 1}

EmptyMap == [i \in {} |-> PathNone]

\* The fields __init__ sets before it looks at the cache (lines 117-159).
FreshLocator(m) ==
    [thread_count |-> m.threads,
     cpu_type |-> "None",
     cpu_directory |-> PathNone,
     cpu_files |-> [r \in CpuFilesRoles |-> EmptyMap],
     intel_boost_path |-> PathNone,
     package_temp_file |-> PathNone,
     proc_files |-> [stat |-> PathNone, cpuinfo |-> PathNone, meminfo |-> PathNone],
     intel_tdp_files |-> [tdp |-> PathNone, max_tdp |-> PathNone]]

\* find_cpu_directory: the directory, with cpu_type set on the way.
find_cpu_directory(m) ==
    CASE m.cpu_dir = "intel" -> [cpu_type |-> "Intel", root |-> Path("/sys/devices/system/cpu", -1)]
      [] m.cpu_dir = "other" -> [cpu_type |-> "Other", root |-> Path("/sys/devices/system/cpu", -1)]
      [] OTHER -> [cpu_type |-> "None", root |-> PathNone]

\* The per-thread files the loop of lines 210-212 and find_energy_perf_bias_files
\* resolve, and the boost_files[0] entry find_no_turbo_file adds.
DiscoveredCpuFiles(m, cpu_type) ==
    LET threads == 0 .. m.threads - 1
        has(r, i) ==
            CASE r \in DOMAIN cpufreq_file_paths \ {"boost_files"} -> i \in m.cpufreq
              [] r = "boost_files" ->
                    \/ cpu_type = "Other" /\ i \in m.cpufreq
                    \/ cpu_type = "Intel" /\ m.no_turbo /\ i = 0
              [] OTHER -> cpu_type = "Intel"
        path(r, i) ==
            CASE r \in DOMAIN cpufreq_file_paths \ {"boost_files"} -> Path(cpufreq_file_paths[r], i)
              [] r = "boost_files" ->
                    IF cpu_type = "Intel" THEN Path("no_turbo", -1) ELSE Path("boost", i)
              [] r = "package_throttle_time_files" -> Path("package_throttle_total_time_ms", i)
              [] OTHER -> Path("energy_perf_bias", i)
    IN  [r \in CpuFilesRoles |-> [i \in {j \in threads : has(r, j)} |-> path(r, i)]]

\* The state initialize_cpu_files leaves (lines 200-232).
Discovered(m) ==
    LET found == find_cpu_directory(m)
        fresh == FreshLocator(m)
    IN  IF found.root = PathNone
        THEN [fresh EXCEPT !.cpu_type = found.cpu_type]
        ELSE [fresh EXCEPT
                !.cpu_type = found.cpu_type,
                !.cpu_directory = found.root,
                !.cpu_files = DiscoveredCpuFiles(m, found.cpu_type),
                !.intel_boost_path =
                    IF found.cpu_type = "Intel" /\ m.no_turbo
                    THEN Path("no_turbo", -1) ELSE PathNone,
                !.package_temp_file =
                    IF m.thermal THEN Path("temp1_input", -1) ELSE PathNone,
                !.proc_files =
                    [stat |-> IF m.stat THEN Path("/proc/stat", -1) ELSE PathNone,
                     cpuinfo |-> Path("/proc/cpuinfo", -1),
                     meminfo |-> Path("/proc/meminfo", -1)],
                !.intel_tdp_files =
                    IF found.cpu_type = "Intel"
                    THEN [tdp |-> Path("constraint_0_power_limit_uw", -1),
                          max_tdp |-> Path("constraint_0_max_power_uw", -1)]
                    ELSE fresh.intel_tdp_files]

\* json.dump turns the integer thread keys of a mapping into strings.
JsonKey(i) == [str |-> i]
JsonDumpMap(map) == [k \in {JsonKey(i) : i \in DOMAIN map} |-> map[k.str]]

\* directories_to_save (lines 221-229) as json.dump writes it.
SavedTable(loc) ==
    [cpu_directory |-> loc.cpu_directory,
     cpu_files |-> [r \in CpuFilesRoles |-> JsonDumpMap(loc.cpu_files[r])],
     intel_boost_path |-> loc.intel_boost_path,
     package_temp_file |-> loc.package_temp_file,
     proc_files |-> loc.proc_files,
     intel_tdp_files |-> loc.intel_tdp_files]

\* load_paths_from_cache, lines 170-177.
LoadedFromCache(m, table) ==
    [thread_count |-> m.threads,
     cpu_type |-> IF Truthy(table.intel_boost_path) THEN "Intel" ELSE "Other",
     cpu_directory |-> table.cpu_directory,
     cpu_files |-> [r \in DOMAIN table.cpu_files |->
                       [i \in {k.str : k \in DOMAIN table.cpu_files[r]} |->
                           table.cpu_files[r][JsonKey(i)]]],
     intel_boost_path |-> table.intel_boost_path,
     package_temp_file |-> table.package_temp_file,
     proc_files |-> table.proc_files,
     intel_tdp_files |-> table.intel_tdp_files]

\* validate_loaded_paths: the errors it collects (lines 184-193).
ValidationErrors(loc) ==
    (IF ~Truthy(loc.cpu_directory) THEN {"CPU directory is not set."} ELSE {})
    \cup (IF ~\E i \in DOMAIN loc.cpu_files["scaling_max_files"] :
                Truthy(loc.cpu_files["scaling_max_files"][i])
          THEN {"Min or max frequency files are not set for any thread."} ELSE {})
    \cup (IF ~Truthy(loc.proc_files.stat) THEN {"/proc/stat file is not set."} ELSE {})
    \cup (IF ~Truthy(loc.package_temp_file)
          THEN {"Package temperature file is not set."} ELSE {})

LocInit ==
    /\ machine \in Machines
    /\ cache_file = None
    /\ locator = None
    /\ ctor_outcome = "none"
    /\ rediscovered = FALSE

LocIdle ==
    /\ machine = [cpu_dir |-> "none", threads |-> 1, cpufreq |-> {},
                  no_turbo |-> FALSE, stat |-> FALSE, thermal |-> FALSE]
    /\ cache_file = None
    /\ locator = None
    /\ ctor_outcome = "none"
    /\ rediscovered = FALSE

\* CPUFileSearch.__init__ (lines 110-166): a process starts.
ConstructLocator ==
    /\ locator = None
    /\ IF cache_file # None
       THEN \* load_paths_from_cache: validate_loaded_paths raises out of __init__
            LET loaded == LoadedFromCache(machine, cache_file.ok)
            IN  /\ rediscovered' = FALSE
                /\ IF ValidationErrors(loaded) # {}
                   THEN /\ ctor_outcome' = "RuntimeError"
                        /\ locator' = None
                   ELSE /\ ctor_outcome' = "constructed"
                        /\ locator' = Ok(loaded)
                /\ UNCHANGED cache_file
       ELSE LET found == Discovered(machine)
            IN  /\ rediscovered' = TRUE
                /\ ctor_outcome' = "constructed"
                /\ locator' = Ok(found)
                /\ cache_file' = IF Truthy(found.cpu_directory)
                                 THEN Ok(SavedTable(found)) ELSE cache_file
    /\ UNCHANGED machine
    /\ UNCHANGED <<pboVars, loadVars, walkVars, ctlVars, extVars>>

\* The process ends.
ProcessExit ==
    /\ locator # None
    /\ locator' = None
    /\ UNCHANGED <<machine, cache_file, ctor_outcome, rediscovered>>
    /\ UNCHANGED <<pboVars, loadVars, walkVars, ctlVars, extVars>>

\* Between two runs one fact of the machine changes.
MachineChanges ==
    /\ locator = None
    /\ \E m \in Machines :
          /\ Cardinality({f \in DOMAIN m : m[f] # machine[f]}) = 1
          /\ machine' = m
    /\ ctor_outcome' = "none"
    /\ UNCHANGED <<cache_file, locator, rediscovered>>
    /\ UNCHANGED <<pboVars, loadVars, walkVars, ctlVars, extVars>>

LocNext == ConstructLocator \/ ProcessExit \/ MachineChanges

-----------------------------------------------------------------------------

(* Control tab: command builders, privileged executor, ledger *)

\* Number of user edits (scale moves, checkbutton toggles) explored after start-up.
MaxEdits == 2
\* Callbacks that may wait in the GLib main loop at once.
MaxIdleQueue == 2

\* The machines the control tab is explored on: every path file present, the
\* first thread with a cpufreq directory, the others with or without one.
ControlMachines ==
    {m \in Machines :
        /\ m.threads = MaxLocThreads
        /\ m.cpu_dir # "none"
        /\ m.no_turbo /\ m.stat /\ m.thermal
        /\ m.cpufreq \in {{0}, 0 .. m.threads - 1}}

\* dict.get(i): the entry, or None.
MapGet(map, i) == IF i \in DOMAIN map THEN map[i] ELSE PathNone

\* cpu_files[role]: the mapping, or KeyError.
RoleLookup(cpu_files, role) ==
    IF role \in DOMAIN cpu_files THEN Ok(cpu_files[role]) ELSE Raised("KeyError")

\* d[key] = value on a dict
DictSet(d, key, value) ==
    [k \in DOMAIN d \cup {key} |-> IF k = key THEN value ELSE d[k]]

EmptyDict == [k \in {} |-> None]

\* Gtk.Scale.get_value() of a frequency scale, in hundredths of a MHz (a scale
\* created with two digits carries fractions): 800, 1500.50 and 6500 MHz.
ScaleValues == {80000, 150050, 650000}

\* int(value) of a non-negative scale value.
PyInt(value) == value \div 100

\* int(value * 1000) of a non-negative scale value read back from JSON.
PyIntTimes1000(value) == (value * 1000) \div 100

\* validate_and_get_speeds (lines 892-902): (min_speed, max_speed), or None.
validate_and_get_speeds(min_value, max_value) ==
    LET min_speed == PyInt(min_value)
        max_speed == PyInt(max_value)
    IN  IF ~(0 <= min_speed /\ min_speed <= max_speed /\ max_speed <= 6000)
        THEN None
        ELSE Ok(<<min_speed, max_speed>>)

\* get_frequency_commands with the two files exchanged.
get_frequency_commands_swapped(table, min_speed, max_speed, i) ==
    LET max_file == MapGet(table.cpu_files["scaling_min_files"], i)
        min_file == MapGet(table.cpu_files["scaling_max_files"], i)
    IN  IF Truthy(max_file) /\ Truthy(min_file)
        THEN Ok(<<Write(max_speed * 1000, max_file), Write(min_speed * 1000, min_file)>>)
        ELSE None

\* get_frequency_commands (lines 904-915): (max_command, min_command), or None.
get_frequency_commands(table, min_speed, max_speed, i) ==
    LET max_file == MapGet(table.cpu_files["scaling_max_files"], i)
        min_file == MapGet(table.cpu_files["scaling_min_files"], i)
    IN  IF Truthy(max_file) /\ Truthy(min_file)
        THEN Ok(<<Write(max_speed * 1000, max_file), Write(min_speed * 1000, min_file)>>)
        ELSE None

RECURSIVE SpeedCommandList(_, _, _, _, _)
\* The for loop of apply_cpu_clock_speed_limits (lines 940-959) from thread i on.
SpeedCommandList(table, mins, maxs, checks, i) ==
    IF i >= table.thread_count THEN <<>>
    ELSE LET speeds == validate_and_get_speeds(mins[i], maxs[i])
             commands == IF checks[i] /\ speeds # None
                         THEN get_frequency_commands(table, speeds.ok[1], speeds.ok[2], i)
                         ELSE None
         IN  (IF commands # None THEN commands.ok ELSE <<>>)
                \o SpeedCommandList(table, mins, maxs, checks, i + 1)

\* CPUManager.valid_governors with a governor the kernel lists added.
governors_as_listed ==
    {"conservative", "ondemand", "performance", "powersave", "schedutil", "userspace", "interactive"}

\* CPUManager.valid_governors (lines 70-77)
valid_governors ==
    {"conservative", "ondemand", "performance", "powersave", "schedutil", "userspace"}

\* The model of governor_dropdown: the placeholder, then sorted(unique_governors)
\* (update_governor_dropdown, lines 808-832), here of a kernel that lists
\* interactive, performance and powersave.
GovernorItems(table) ==
    IF DOMAIN table.cpu_files["available_governors_files"] # {}
    THEN <<"Select Governor", "interactive", "performance", "powersave">>
    ELSE <<"Select Governor">>

\* The model of epb_dropdown (main.py 630-632).
EpbItems ==
    <<"Select Energy Performance Bias", "0 Performance", "4 Balance-Performance",
      "6 Normal", "8 Balance-Power", "15 Power">>

\* int(selected_bias.split()[0])
EpbValue(item) ==
    CASE item = "0 Performance" -> Ok(0)
      [] item = "4 Balance-Performance" -> Ok(4)
      [] item = "6 Normal" -> Ok(6)
      [] item = "8 Balance-Power" -> Ok(8)
      [] item = "15 Power" -> Ok(15)
      [] OTHER -> Raised("ValueError")

valid_bias_values == {0, 4, 6, 8, 15}

RECURSIVE PerThreadWrites(_, _, _, _)
\* "for i in range(thread_count): file = files.get(i); if file: append(...)"
PerThreadWrites(files, thread_count, value, i) ==
    IF i >= thread_count THEN <<>>
    ELSE (IF Truthy(MapGet(files, i)) THEN <<Write(value, MapGet(files, i))>> ELSE <<>>)
            \o PerThreadWrites(files, thread_count, value, i + 1)

\* set_cpu_governor.get_command_list (lines 1015-1022)
governor_command_list(table, governor) ==
    PerThreadWrites(table.cpu_files["governor_files"], table.thread_count, governor, 0)

\* set_energy_perf_bias.get_command_list (lines 1339-1347): the list, or the
\* KeyError of cpu_files['epb_files'].
epb_command_list(table, bias_value) ==
    LET epb_files == RoleLookup(table.cpu_files, "epb_files")
    IN  IF IsOk(epb_files)
        THEN Ok(PerThreadWrites(epb_files.ok, table.thread_count, bias_value, 0))
        ELSE epb_files

\* json.dump of the ledger: the thread keys of its mappings become strings.
LedgerMaps == {"min_speeds", "max_speeds", "checked_threads"}
JsonDumpLedger(d) ==
    [k \in DOMAIN d |-> IF k \in LedgerMaps THEN JsonDumpMap(d[k]) ELSE d[k]]
\* dict.get(key): the value, or None.
DictGet(d, key) == IF key \in DOMAIN d THEN Ok(d[key]) ELSE None

\* The control whose handler started a thread or queued a callback.
ControlOf(entry) == entry.control

\* The record a control handler leaves of its run: the widgets and the ledger it
\* found, the commands it built, the invocations it started.
CallRecord(handler, selected, command_list, started, exception) ==
    Ok([handler |-> handler, selected |-> selected,
        min_scales |-> min_scales, max_scales |-> max_scales,
        checkbuttons |-> cpu_max_min_checkbuttons,
        command_list |-> command_list, started |-> started,
        exception |-> exception, applied_settings |-> applied_settings])

\* Thread(target=run_command).start() of run_pkexec_command (line 61).
Started(control, command_list, selected) ==
    [control |-> control, command |-> command_list, selected |-> selected]

\* ScheduledCallback with exit code 127 taken for a cancellation.
ScheduledCallback_not_found_as_canceled(outcome) ==
    CASE outcome = Ok(0) -> [fn |-> "success_callback", arg |-> ""]
      [] outcome = Ok(126) -> [fn |-> "failure_callback", arg |-> "canceled"]
      [] outcome = Ok(127) -> [fn |-> "failure_callback", arg |-> "canceled"]
      [] IsOk(outcome) -> [fn |-> "failure_callback", arg |-> "subprocess_error"]
      [] OTHER -> [fn |-> "failure_callback", arg |-> "unexpected_error"]

\* What run_command hands to GLib.idle_add for an outcome of subprocess.run
\* (lines 34-59): exit code 0, CalledProcessError with a code, or an exception.
ExitOutcomes == {Ok(0), Ok(126), Ok(127), Ok(1), Raised("OSError")}
ScheduledCallback(outcome) ==
    CASE outcome = Ok(0) -> [fn |-> "success_callback", arg |-> ""]
      [] outcome = Ok(126) -> [fn |-> "failure_callback", arg |-> "canceled"]
      [] outcome = Ok(127) -> [fn |-> "failure_callback", arg |-> "not_found"]
      [] IsOk(outcome) -> [fn |-> "failure_callback", arg |-> "subprocess_error"]
      [] OTHER -> [fn |-> "failure_callback", arg |-> "unexpected_error"]

\* GLib.idle_add(lambda: dropdown.set_selected(0))
ResetEntry(control) ==
    [control |-> control, fn |-> "set_selected_0", arg |-> "", selected |-> "",
     command |-> <<>>]

\* SettingsApplier.save_settings (lines 102-110) of a ledger.
save_settings(ledger) == Ok(JsonDumpLedger(ledger))

\* ---- Apply Speed Limits

\* CPUManager.apply_cpu_clock_speed_limits (lines 875-974): a click on the
\* sensitive Apply Speed Limits button.
ApplySpeedLimits ==
    /\ apply_max_min_button
    /\ LET command_list == SpeedCommandList(cpu_file_search, min_scales, max_scales,
                                            cpu_max_min_checkbuttons, 0)
       IN  /\ running' = IF command_list # <<>>
                         THEN Append(running, Started("speed", command_list, ""))
                         ELSE running
           /\ apply_max_min_button' = (command_list = <<>>)
           /\ last_call' = CallRecord("apply_cpu_clock_speed_limits", "", command_list,
                                      SubSeq(running', Len(running) + 1, Len(running')), None)
    /\ UNCHANGED <<cpu_file_search, min_scales, max_scales, cpu_max_min_checkbuttons,
                   governor_dropdown, epb_dropdown, applied_settings, settings_file,
                   idle_queue, user_edits, tmp_script, script_calls>>
    /\ UNCHANGED <<pboVars, loadVars, walkVars, locVars, extVars>>

\* The user moves a frequency scale; ScaleManager.update_min_max_labels
\* (scale_management.py 76-107) drags the other scale of the thread along.
MoveScale ==
    /\ user_edits < MaxEdits
    /\ \E i \in DOMAIN min_scales, v \in ScaleValues :
          \/ /\ v # min_scales[i]
             /\ min_scales' = [min_scales EXCEPT ![i] = v]
             /\ max_scales' = IF v > max_scales[i]
                              THEN [max_scales EXCEPT ![i] = v] ELSE max_scales
          \/ /\ v # max_scales[i]
             /\ max_scales' = [max_scales EXCEPT ![i] = v]
             /\ min_scales' = IF v < min_scales[i]
                              THEN [min_scales EXCEPT ![i] = v] ELSE min_scales
    /\ user_edits' = user_edits + 1
    /\ UNCHANGED <<cpu_file_search, cpu_max_min_checkbuttons, apply_max_min_button,
                   governor_dropdown, epb_dropdown, applied_settings, settings_file,
                   running, idle_queue, last_call, tmp_script, script_calls>>
    /\ UNCHANGED <<pboVars, loadVars, walkVars, locVars, extVars>>

\* The user toggles the checkbutton of a thread.
ToggleThread ==
    /\ user_edits < MaxEdits
    /\ \E i \in DOMAIN cpu_max_min_checkbuttons :
          cpu_max_min_checkbuttons' =
              [cpu_max_min_checkbuttons EXCEPT ![i] = ~cpu_max_min_checkbuttons[i]]
    /\ user_edits' = user_edits + 1
    /\ UNCHANGED <<cpu_file_search, min_scales, max_scales, apply_max_min_button,
                   governor_dropdown, epb_dropdown, applied_settings, settings_file,
                   running, idle_queue, last_call, tmp_script, script_calls>>
    /\ UNCHANGED <<pboVars, loadVars, walkVars, locVars, extVars>>

\* ---- The dropdowns

\* CPUManager.set_cpu_governor (lines 1001-1067) on a dropdown that shows item:
\* the sensitivity it leaves, the commands it builds, whether it starts an
\* invocation, whether it schedules the reset of the dropdown.
set_cpu_governor(table, item, sensitive) ==
    IF item = "Select Governor"
    THEN [sensitive |-> sensitive, command_list |-> <<>>, start |-> FALSE,
          reset |-> FALSE, exception |-> None]
    ELSE IF item \in valid_governors
    THEN LET command_list == governor_command_list(table, item)
         IN  [sensitive |-> command_list = <<>>, command_list |-> command_list,
              start |-> command_list # <<>>, reset |-> FALSE, exception |-> None]
    ELSE [sensitive |-> TRUE, command_list |-> <<>>, start |-> FALSE,
          reset |-> TRUE, exception |-> None]

\* CPUManager.set_energy_perf_bias (lines 1326-1395), likewise.
set_energy_perf_bias(table, item, sensitive) ==
    IF item = "Select Energy Performance Bias"
    THEN [sensitive |-> sensitive, command_list |-> <<>>, start |-> FALSE,
          reset |-> FALSE, exception |-> None]
    ELSE LET bias_value == EpbValue(item)
         IN  IF ~IsOk(bias_value)
             THEN [sensitive |-> TRUE, command_list |-> <<>>, start |-> FALSE,
                   reset |-> FALSE, exception |-> bias_value]
             ELSE IF bias_value.ok \in valid_bias_values
             THEN LET command_list == epb_command_list(table, bias_value.ok)
                  IN  IF ~IsOk(command_list)
                      THEN [sensitive |-> TRUE, command_list |-> <<>>, start |-> FALSE,
                            reset |-> FALSE, exception |-> command_list]
                      ELSE [sensitive |-> command_list.ok = <<>>,
                            command_list |-> command_list.ok,
                            start |-> command_list.ok # <<>>,
                            reset |-> FALSE, exception |-> None]
             ELSE [sensitive |-> TRUE, command_list |-> <<>>, start |-> FALSE,
                   reset |-> TRUE, exception |-> None]

\* The governor dropdown changes to item and its handler runs; queue is the
\* idle queue the handler finds.
GovernorChanged(item, queue) ==
    LET e == set_cpu_governor(cpu_file_search, item, governor_dropdown.sensitive)
    IN  /\ governor_dropdown' = [selected |-> item, sensitive |-> e.sensitive]
        /\ running' = IF e.start
                      THEN Append(running, Started("governor", e.command_list, item))
                      ELSE running
        /\ idle_queue' = queue \o (IF e.reset THEN <<ResetEntry("governor")>> ELSE <<>>)
        /\ last_call' = CallRecord("set_cpu_governor", item, e.command_list,
                                   SubSeq(running', Len(running) + 1, Len(running')), e.exception)

\* The energy-perf-bias dropdown changes to item and its handler runs.
EpbChanged(item, queue) ==
    LET e == set_energy_perf_bias(cpu_file_search, item, epb_dropdown.sensitive)
    IN  /\ epb_dropdown' = [selected |-> item, sensitive |-> e.sensitive]
        /\ running' = IF e.start
                      THEN Append(running, Started("epb", e.command_list, item))
                      ELSE running
        /\ idle_queue' = queue \o (IF e.reset THEN <<ResetEntry("epb")>> ELSE <<>>)
        /\ last_call' = CallRecord("set_energy_perf_bias", item, e.command_list,
                                   SubSeq(running', Len(running) + 1, Len(running')), e.exception)

\* The user picks another item of the sensitive governor dropdown.
SelectGovernor ==
    /\ governor_dropdown.sensitive
    /\ Len(idle_queue) < MaxIdleQueue
    /\ \E k \in DOMAIN GovernorItems(cpu_file_search) :
          /\ GovernorItems(cpu_file_search)[k] # governor_dropdown.selected
          /\ GovernorChanged(GovernorItems(cpu_file_search)[k], idle_queue)
    /\ UNCHANGED <<cpu_file_search, min_scales, max_scales, cpu_max_min_checkbuttons,
                   apply_max_min_button, epb_dropdown, applied_settings, settings_file,
                   user_edits, tmp_script, script_calls>>
    /\ UNCHANGED <<pboVars, loadVars, walkVars, locVars, extVars>>

\* The user picks another item of the sensitive energy-perf-bias dropdown.
SelectEpb ==
    /\ epb_dropdown.sensitive
    /\ Len(idle_queue) < MaxIdleQueue
    /\ \E k \in DOMAIN EpbItems :
          /\ EpbItems[k] # epb_dropdown.selected
          /\ EpbChanged(EpbItems[k], idle_queue)
    /\ UNCHANGED <<cpu_file_search, min_scales, max_scales, cpu_max_min_checkbuttons,
                   apply_max_min_button, governor_dropdown, applied_settings,
                   settings_file, user_edits, tmp_script, script_calls>>
    /\ UNCHANGED <<pboVars, loadVars, walkVars, locVars, extVars>>

\* ---- The privileged executor and the main loop

\* run_command (privileged_actions.py 33-59): a started thread ends and hands
\* its callback to GLib.idle_add.
WorkerEnds ==
    /\ \E k \in DOMAIN running, outcome \in ExitOutcomes :
          LET w == running[k]
              cb == ScheduledCallback(outcome)
          IN  /\ running' = [j \in 1 .. Len(running) - 1 |->
                                IF j < k THEN running[j] ELSE running[j + 1]]
              /\ idle_queue' = Append(idle_queue,
                                  [control |-> w.control, fn |-> cb.fn, arg |-> cb.arg,
                                   selected |-> w.selected, command |-> w.command])
    /\ UNCHANGED <<cpu_file_search, min_scales, max_scales, cpu_max_min_checkbuttons,
                   apply_max_min_button, governor_dropdown, epb_dropdown,
                   applied_settings, settings_file, last_call, user_edits, tmp_script,
                   script_calls>>
    /\ UNCHANGED <<pboVars, loadVars, walkVars, locVars, extVars>>

\* The ledger after the success callback of apply_cpu_clock_speed_limits
\* (lines 922-924), read from the widgets as they are when it runs.
SpeedLedger(ledger) ==
    DictSet(DictSet(DictSet(ledger,
        "min_speeds", [i \in {j \in DOMAIN min_scales : min_scales[j] > 0} |-> min_scales[i]]),
        "max_speeds", [i \in {j \in DOMAIN max_scales : max_scales[j] > 0} |-> max_scales[i]]),
        "checked_threads", cpu_max_min_checkbuttons)

\* The GLib main loop runs the callback at the head of its idle queue: a
\* success_callback or failure_callback of the control that started the
\* invocation, or the reset of a dropdown.
RunIdleCallback ==
    /\ idle_queue # <<>>
    /\ ControlOf(Head(idle_queue)) \in {"speed", "governor", "epb"}
    /\ LET h == Head(idle_queue)
           rest == Tail(idle_queue)
       IN  CASE h.control = "speed" /\ h.fn = "success_callback" ->
                   \* cpu_management.py 917-927
                   /\ apply_max_min_button' = TRUE
                   /\ applied_settings' = SpeedLedger(applied_settings)
                   /\ settings_file' = save_settings(applied_settings')
                   /\ idle_queue' = rest
                   /\ UNCHANGED <<governor_dropdown, epb_dropdown, running, last_call>>
             [] h.control = "speed" /\ h.fn = "failure_callback" ->
                   \* cpu_management.py 929-934
                   /\ apply_max_min_button' = TRUE
                   /\ idle_queue' = rest
                   /\ UNCHANGED <<governor_dropdown, epb_dropdown, running, last_call,
                                  applied_settings, settings_file>>
             [] h.control = "governor" /\ h.fn = "success_callback" ->
                   \* cpu_management.py 1024-1032
                   /\ governor_dropdown' = [governor_dropdown EXCEPT !.sensitive = TRUE]
                   /\ applied_settings' = DictSet(applied_settings, "governor", h.selected)
                   /\ settings_file' = save_settings(applied_settings')
                   /\ idle_queue' = rest
                   /\ UNCHANGED <<apply_max_min_button, epb_dropdown, running, last_call>>
             [] h.control = "governor" /\ h.fn = "failure_callback" ->
                   \* cpu_management.py 1034-1041
                   /\ governor_dropdown' = [governor_dropdown EXCEPT !.sensitive = TRUE]
                   /\ idle_queue' = rest \o (IF h.arg = "canceled"
                                             THEN <<ResetEntry("governor")>> ELSE <<>>)
                   /\ UNCHANGED <<apply_max_min_button, epb_dropdown, running, last_call,
                                  applied_settings, settings_file>>
             [] h.control = "governor" /\ h.fn = "set_selected_0" ->
                   /\ IF governor_dropdown.selected # "Select Governor"
                      THEN GovernorChanged("Select Governor", rest)
                      ELSE /\ idle_queue' = rest
                           /\ UNCHANGED <<governor_dropdown, running, last_call>>
                   /\ UNCHANGED <<apply_max_min_button, epb_dropdown, applied_settings,
                                  settings_file>>
             [] h.control = "epb" /\ h.fn = "success_callback" ->
                   \* cpu_management.py 1349-1357
                   /\ epb_dropdown' = [epb_dropdown EXCEPT !.sensitive = TRUE]
                   /\ applied_settings' = DictSet(applied_settings, "epb", h.selected)
                   /\ settings_file' = save_settings(applied_settings')
                   /\ idle_queue' = rest
                   /\ UNCHANGED <<apply_max_min_button, governor_dropdown, running,
                                  last_call>>
             [] h.control = "epb" /\ h.fn = "failure_callback" ->
                   \* cpu_management.py 1359-1366
                   /\ epb_dropdown' = [epb_dropdown EXCEPT !.sensitive = TRUE]
                   /\ idle_queue' = rest \o (IF h.arg = "canceled"
                                             THEN <<ResetEntry("epb")>> ELSE <<>>)
                   /\ UNCHANGED <<apply_max_min_button, governor_dropdown, running,
                                  last_call, applied_settings, settings_file>>
             [] OTHER ->
                   \* the reset of the energy-perf-bias dropdown
                   /\ IF epb_dropdown.selected # "Select Energy Performance Bias"
                      THEN EpbChanged("Select Energy Performance Bias", rest)
                      ELSE /\ idle_queue' = rest
                           /\ UNCHANGED <<epb_dropdown, running, last_call>>
                   /\ UNCHANGED <<apply_max_min_button, governor_dropdown,
                                  applied_settings, settings_file>>
    /\ UNCHANGED <<cpu_file_search, min_scales, max_scales, cpu_max_min_checkbuttons,
                   user_edits, tmp_script, script_calls>>
    /\ UNCHANGED <<pboVars, loadVars, walkVars, locVars, extVars>>

\* ---- The boot script

TmpScriptPath == "/tmp/apply_clockspeeds_settings.sh"

RECURSIVE ScriptSpeedCommands(_, _, _, _)
\* create_apply_script, the loop of lines 137-149 from thread i on.
ScriptSpeedCommands(min_speeds, max_speeds, table, i) ==
    IF i >= table.thread_count THEN <<>>
    ELSE LET min_speed == DictGet(min_speeds, JsonKey(i))
             max_speed == DictGet(max_speeds, JsonKey(i))
             max_file == MapGet(table.cpu_files["scaling_max_files"], i)
             min_file == MapGet(table.cpu_files["scaling_min_files"], i)
         IN  (IF /\ min_speed # None /\ max_speed # None
                 /\ Truthy(max_file) /\ Truthy(min_file)
              THEN <<Write(PyIntTimes1000(max_speed.ok), max_file),
                     Write(PyIntTimes1000(min_speed.ok), min_file)>>
              ELSE <<>>)
                \o ScriptSpeedCommands(min_speeds, max_speeds, table, i + 1)

\* with open(tmp_script_path, 'a'): the text is added to what the file holds.
open_a_write(file, text) == IF file = None THEN Ok(text) ELSE Ok(file.ok \o text)

\* with open(tmp_script_path, 'w') as f: f.write(script_content) (lines 207-209)
open_w_write(file, text) == Ok(text)

\* SettingsApplier.create_apply_script (lines 126-216) up to the script text:
\* Ok(script_content), or the exception its except clause turns into None.
create_apply_script(file, table) ==
    LET settings == IF file = None THEN EmptyDict ELSE file.ok
        min_speeds == IF "min_speeds" \in DOMAIN settings THEN settings["min_speeds"] ELSE EmptyDict
        max_speeds == IF "max_speeds" \in DOMAIN settings THEN settings["max_speeds"] ELSE EmptyDict
        governor == DictGet(settings, "governor")
        boost == DictGet(settings, "boost")
        tdp == DictGet(settings, "tdp")
        pbo_offset == DictGet(settings, "pbo_offset")
        epb == DictGet(settings, "epb")
        speed_commands == ScriptSpeedCommands(min_speeds, max_speeds, table, 0)
        governor_commands ==
            IF governor # None /\ governor.ok # "" /\ governor.ok # "Select Governor"
            THEN PerThreadWrites(table.cpu_files["governor_files"], table.thread_count,
                                 governor.ok, 0)
            ELSE <<>>
        boost_commands ==
            IF boost = None THEN <<>>
            ELSE IF table.cpu_type = "Other"
            THEN PerThreadWrites(table.cpu_files["boost_files"], table.thread_count,
                                 IF boost.ok THEN "1" ELSE "0", 0)
            ELSE IF Truthy(table.intel_boost_path)
            THEN <<Write(IF boost.ok THEN "0" ELSE "1", table.intel_boost_path)>>
            ELSE <<>>
        tdp_commands ==
            IF tdp # None /\ Truthy(table.intel_tdp_files.tdp)
            THEN <<Write(tdp.ok, table.intel_tdp_files.tdp)>>
            ELSE <<>>
        pbo_commands ==
            IF pbo_offset = None THEN Ok(<<>>)
            ELSE LET command == SettingsApplier_create_pbo_command(pbo_offset.ok, physical_cores)
                 IN  IF IsOk(command) THEN Ok(<<[joined |-> command.ok]>>) ELSE command
        epb_commands ==
            IF epb = None \/ epb = Ok("") \/ epb = Ok("Select Energy Performance Bias")
            THEN Ok(<<>>)
            ELSE IF ~IsOk(EpbValue(epb.ok)) THEN EpbValue(epb.ok)
            ELSE IF table.thread_count = 0 THEN Ok(<<>>)
            ELSE epb_command_list(table, EpbValue(epb.ok).ok)
    IN  IF ~IsOk(pbo_commands) THEN pbo_commands
        ELSE IF ~IsOk(epb_commands) THEN epb_commands
        ELSE LET commands == speed_commands \o governor_commands \o boost_commands
                                \o tdp_commands \o pbo_commands.ok \o epb_commands.ok
             IN  IF Len(commands) = 0 THEN Raised("ValueError")
                 ELSE Ok(<<[line |-> "#!/bin/bash"]>> \o commands)

\* A call of SettingsApplier.create_apply_script: what it returns, and the
\* script file it leaves.
CreateApplyScript ==
    /\ LET built == create_apply_script(settings_file, cpu_file_search)
       IN  /\ tmp_script' = IF IsOk(built) THEN open_w_write(tmp_script, built.ok)
                            ELSE tmp_script
           /\ script_calls' =
                 (IF Len(script_calls) = 2 THEN Tail(script_calls) ELSE script_calls)
                    \o <<[settings |-> settings_file, table |-> cpu_file_search,
                          result |-> IF IsOk(built) THEN Ok(TmpScriptPath) ELSE None,
                          script |-> tmp_script']>>
    /\ UNCHANGED <<cpu_file_search, min_scales, max_scales, cpu_max_min_checkbuttons,
                   apply_max_min_button, governor_dropdown, epb_dropdown,
                   applied_settings, settings_file, running, idle_queue, last_call,
                   user_edits>>
    /\ UNCHANGED <<pboVars, loadVars, walkVars, locVars, extVars>>

\* ---- Start-up

\* The control tab as create_control_widgets leaves it on a table (main.py
\* 534-537, 585-633), with no invocation started.
ControlStart(table) ==
    /\ cpu_file_search = table
    /\ cpu_max_min_checkbuttons = [i \in 0 .. table.thread_count - 1 |-> TRUE]
    /\ apply_max_min_button = TRUE
    /\ governor_dropdown = [selected |-> "Select Governor", sensitive |-> TRUE]
    /\ epb_dropdown = [selected |-> "Select Energy Performance Bias", sensitive |-> TRUE]
    /\ running = <<>>
    /\ idle_queue = <<>>
    /\ last_call = None
    /\ user_edits = 0
    /\ tmp_script = None
    /\ script_calls = <<>>

\* The scales show the limits the machine has: any values with min <= max.
SpeedInit ==
    /\ \E m \in ControlMachines : ControlStart(Discovered(m))
    /\ min_scales \in [0 .. MaxLocThreads - 1 -> ScaleValues]
    /\ max_scales \in {f \in [0 .. MaxLocThreads - 1 -> ScaleValues] :
                          \A i \in 0 .. MaxLocThreads - 1 : min_scales[i] <= f[i]}
    \* initialize_settings_file (apply_settings.py 57-61)
    /\ applied_settings = EmptyDict
    /\ settings_file = Ok(EmptyDict)

LowestScales == [i \in 0 .. MaxLocThreads - 1 |-> 80000]

DropdownInit ==
    /\ \E m \in ControlMachines : ControlStart(Discovered(m))
    /\ min_scales = LowestScales
    /\ max_scales = LowestScales
    /\ applied_settings = EmptyDict
    /\ settings_file = Ok(EmptyDict)

\* d1 | d2 of two dicts
DictMerge(a, b) ==
    [k \in DOMAIN a \cup DOMAIN b |-> IF k \in DOMAIN b THEN b[k] ELSE a[k]]

\* The ledgers successful applies leave: each kind of setting applied or not.
ScriptLedgers ==
    LET threads == 0 .. MaxLocThreads - 1
        values == [threads -> {80000, 150050}]
        speeds == {EmptyDict} \cup
                  {[min_speeds |-> p[1], max_speeds |-> p[2], checked_threads |-> p[3]] :
                      p \in {q \in values \X values \X {[i \in threads |-> TRUE],
                                                         [i \in threads |-> i = 0]} :
                                \A i \in threads : q[1][i] <= q[2][i]}}
        governors == {EmptyDict, [governor |-> "performance"]}
        boosts == {EmptyDict, [boost |-> TRUE], [boost |-> FALSE]}
        tdps == {EmptyDict, [tdp |-> 15000000]}
        pbos == {EmptyDict, [pbo_offset |-> 30]}
    IN  {DictMerge(DictMerge(DictMerge(DictMerge(c[1], c[2]), c[3]), c[4]), c[5]) :
            c \in speeds \X governors \X boosts \X tdps \X pbos}

ScriptInit ==
    /\ \E m \in ControlMachines : ControlStart(Discovered(m))
    /\ min_scales = LowestScales
    /\ max_scales = LowestScales
    /\ applied_settings \in ScriptLedgers
    /\ settings_file = save_settings(applied_settings)

CtlIdle ==
    /\ cpu_file_search = None
    /\ min_scales = <<>>
    /\ max_scales = <<>>
    /\ cpu_max_min_checkbuttons = <<>>
    /\ apply_max_min_button = TRUE
    /\ governor_dropdown = None
    /\ epb_dropdown = None
    /\ applied_settings = EmptyDict
    /\ settings_file = None
    /\ running = <<>>
    /\ idle_queue = <<>>
    /\ last_call = None
    /\ user_edits = 0
    /\ tmp_script = None
    /\ script_calls = <<>>

SpeedNext == ApplySpeedLimits \/ MoveScale \/ ToggleThread \/ WorkerEnds \/ RunIdleCallback

DropdownNext == SelectGovernor \/ SelectEpb \/ WorkerEnds \/ RunIdleCallback

ScriptNext == CreateApplyScript

-----------------------------------------------------------------------------

(* GLib timeout sources *)

\* GLib source ids in use at a time.
MaxSourceIds == 3

SourceIds == 1 .. MaxSourceIds

\* GLib.timeout_add: the id of the new source.
timeout_add(in_use) == CHOOSE id \in SourceIds \ in_use : \A j \in SourceIds \ in_use : id <= j

\* GLib.timeout_add for run_control_tasks.  GLib hands out an id no live source
\* has; the ids of the control tab's sources are drawn from a range of their own.
ControlSourceIds == {MaxSourceIds + id : id \in SourceIds}
control_timeout_add(in_use) ==
    MaxSourceIds + timeout_add({id - MaxSourceIds : id \in in_use \cap ControlSourceIds})

\* schedule_control_tasks without its GLib.source_remove of the old source.
schedule_control_tasks_keeping(task_id, sources, firing) ==
    LET id == control_timeout_add(sources \cup {firing})
    IN  [control_task_id |-> Ok(id), sources |-> sources \cup {id}]

\* CPUManager.schedule_control_tasks (lines 95-99) on the sources GLib holds,
\* while the source firing (or 0 for none) is dispatched.
schedule_control_tasks(task_id, sources, firing) ==
    LET kept == IF task_id # None THEN sources \ {task_id.ok} ELSE sources
        id == control_timeout_add(kept \cup {firing})
    IN  [control_task_id |-> Ok(id), sources |-> kept \cup {id}]

\* CPUManager.stop_control_tasks (lines 101-105)
stop_control_tasks(task_id, sources) ==
    IF task_id # None
    THEN [control_task_id |-> None, sources |-> sources \ {task_id.ok}]
    ELSE [control_task_id |-> task_id, sources |-> sources]

-----------------------------------------------------------------------------

(* CPU boost: toggle_boost, read_boost_file, the control tab's timer *)

\* The machines the boost checkbutton is explored on.
BoostMachines ==
    {m \in Machines : m.threads = MaxLocThreads /\ m.cpu_dir # "none" /\ m.stat /\ m.thermal}

\* The boost control files of a table: no_turbo, or the per-thread boost files.
BoostPaths(table) ==
    {table.cpu_files["boost_files"][i] : i \in DOMAIN table.cpu_files["boost_files"]}
        \cup (IF Truthy(table.intel_boost_path) THEN {table.intel_boost_path} ELSE {})

\* CPUManager.read_boost_file (lines 846-858) on a file that holds content.
read_boost_file(content, intel) ==
    IF content \in {"0", "1"}
    THEN content = (IF intel THEN "0" ELSE "1")
    ELSE FALSE

\* CPUManager.find_boost_type (lines 834-844): the boost status, or None.
find_boost_type(table, files) ==
    IF /\ table.cpu_type = "Intel"
       /\ Truthy(table.intel_boost_path)
       /\ table.intel_boost_path \in DOMAIN files
    THEN Ok(read_boost_file(files[table.intel_boost_path], TRUE))
    ELSE LET boost_files_map == table.cpu_files["boost_files"]
             existing == {i \in DOMAIN boost_files_map : boost_files_map[i] \in DOMAIN files}
         IN  IF existing = {} THEN None
             ELSE LET first == CHOOSE i \in existing : \A j \in existing : i <= j
                  IN  Ok(read_boost_file(files[boost_files_map[first]], FALSE))

\* CPUManager.update_boost_checkbutton (lines 860-873)
update_boost_checkbutton(checkbutton, table, files) ==
    LET current_status == find_boost_type(table, files)
    IN  IF current_status = None
        THEN [checkbutton EXCEPT !.visible = FALSE]
        ELSE [checkbutton EXCEPT !.visible = TRUE, !.active = current_status.ok]

\* toggle_boost.get_command_list with the Intel value written as on other CPUs.
boost_command_list_direct(table, is_enabled) ==
    IF table.cpu_type = "Intel" /\ Truthy(table.intel_boost_path)
    THEN <<Write(IF is_enabled THEN "1" ELSE "0", table.intel_boost_path)>>
    ELSE PerThreadWrites(table.cpu_files["boost_files"], table.thread_count,
                         IF is_enabled THEN "1" ELSE "0", 0)

\* toggle_boost.get_command_list (lines 1079-1093)
boost_command_list(table, is_enabled) ==
    IF table.cpu_type = "Intel" /\ Truthy(table.intel_boost_path)
    THEN <<Write(IF is_enabled THEN "0" ELSE "1", table.intel_boost_path)>>
    ELSE PerThreadWrites(table.cpu_files["boost_files"], table.thread_count,
                         IF is_enabled THEN "1" ELSE "0", 0)

\* toggle_boost.success_callback (lines 1095-1107) on the state s it finds.
toggle_boost_success_callback(s, is_enabled, table, files) ==
    [boost_enabled |-> Ok(is_enabled),
     timer |-> schedule_control_tasks(s.control_task_id, s.sources, 0),
     checkbutton |-> update_boost_checkbutton([s.checkbutton EXCEPT !.sensitive = TRUE],
                                              table, files),
     ledger |-> DictSet(s.ledger, "boost", is_enabled),
     saved |-> TRUE]

\* toggle_boost.failure_callback that also records the setting.
toggle_boost_failure_callback_saving(s, is_enabled, error_message, table, files) ==
    [boost_enabled |-> s.boost_enabled,
     timer |-> schedule_control_tasks(s.control_task_id, s.sources, 0),
     checkbutton |-> update_boost_checkbutton([s.checkbutton EXCEPT !.sensitive = TRUE],
                                              table, files),
     ledger |-> DictSet(s.ledger, "boost", is_enabled),
     saved |-> TRUE]

\* toggle_boost.failure_callback that leaves the checkbutton and the timer as
\* it finds them.
toggle_boost_failure_callback_leaving(s, is_enabled, error_message, table, files) ==
    [boost_enabled |-> s.boost_enabled,
     timer |-> [control_task_id |-> s.control_task_id, sources |-> s.sources],
     checkbutton |-> s.checkbutton,
     ledger |-> s.ledger,
     saved |-> FALSE]

\* toggle_boost.failure_callback (lines 1109-1117)
toggle_boost_failure_callback(s, is_enabled, error_message, table, files) ==
    [boost_enabled |-> s.boost_enabled,
     timer |-> schedule_control_tasks(s.control_task_id, s.sources, 0),
     checkbutton |-> update_boost_checkbutton([s.checkbutton EXCEPT !.sensitive = TRUE],
                                              table, files),
     ledger |-> s.ledger,
     saved |-> FALSE]

RECURSIVE ExecuteWrites(_, _)
\* sh -c 'echo v | tee file > /dev/null && ...': the files after every write ran.
ExecuteWrites(files, command) ==
    IF command = <<>> THEN files
    ELSE ExecuteWrites([p \in DOMAIN files |->
                           IF p = Head(command).tee THEN Head(command).echo ELSE files[p]],
                       Tail(command))

\* CPUManager.toggle_boost (lines 1069-1136): the user clicks the boost
\* checkbutton, which flips it and runs the handler.
ToggleBoost ==
    /\ current_page = 1
    /\ boost_checkbutton.visible /\ boost_checkbutton.sensitive
    /\ LET clicked == [boost_checkbutton EXCEPT !.active = ~boost_checkbutton.active]
           current_status == find_boost_type(cpu_file_search, boost_files)
           is_enabled == IF current_status = None THEN TRUE ELSE ~current_status.ok
           found == [clicked EXCEPT !.visible = current_status # None]
           command_list == boost_command_list(cpu_file_search, is_enabled)
           stopped == stop_control_tasks(control_task_id, glib_control_timeouts)
           again == schedule_control_tasks(stopped.control_task_id, stopped.sources, 0)
       IN  /\ IF command_list # <<>>
              THEN /\ running' = Append(running, Started("boost", command_list, is_enabled))
                   /\ boost_checkbutton' = [found EXCEPT !.sensitive = FALSE]
                   /\ control_task_id' = stopped.control_task_id
                   /\ glib_control_timeouts' = stopped.sources
              ELSE /\ running' = running
                   /\ boost_checkbutton' =
                         update_boost_checkbutton([found EXCEPT !.sensitive = TRUE],
                                                  cpu_file_search, boost_files)
                   /\ control_task_id' = again.control_task_id
                   /\ glib_control_timeouts' = again.sources
           /\ last_call' = CallRecord("toggle_boost", is_enabled, command_list,
                                      SubSeq(running', Len(running) + 1, Len(running')), None)
    /\ UNCHANGED <<boost_files, boost_enabled, current_page>>
    /\ UNCHANGED <<cpu_file_search, min_scales, max_scales, cpu_max_min_checkbuttons,
                   apply_max_min_button, governor_dropdown, epb_dropdown, applied_settings,
                   settings_file, idle_queue, user_edits, tmp_script, script_calls>>
    /\ UNCHANGED <<pboVars, loadVars, walkVars, locVars, execVars, monVars, moreVars>>

\* run_command (privileged_actions.py 33-59) of a boost invocation: pkexec runs
\* the command, which on exit code 0 has written the boost files, and the
\* callback goes to GLib.idle_add.
BoostWorkerEnds ==
    /\ \E k \in DOMAIN running, outcome \in ExitOutcomes :
          LET w == running[k]
              cb == ScheduledCallback(outcome)
          IN  /\ running' = [j \in 1 .. Len(running) - 1 |->
                                IF j < k THEN running[j] ELSE running[j + 1]]
              /\ boost_files' = IF outcome = Ok(0)
                                THEN ExecuteWrites(boost_files, w.command)
                                ELSE boost_files
              /\ idle_queue' = Append(idle_queue,
                                  [control |-> w.control, fn |-> cb.fn, arg |-> cb.arg,
                                   selected |-> w.selected, command |-> w.command])
    /\ UNCHANGED <<boost_checkbutton, boost_enabled, control_task_id,
                   glib_control_timeouts, current_page>>
    /\ UNCHANGED <<cpu_file_search, min_scales, max_scales, cpu_max_min_checkbuttons,
                   apply_max_min_button, governor_dropdown, epb_dropdown,
                   applied_settings, settings_file, last_call, user_edits, tmp_script,
                   script_calls>>
    /\ UNCHANGED <<pboVars, loadVars, walkVars, locVars, execVars, monVars, moreVars>>

\* The GLib main loop runs the callback of a boost invocation.
RunBoostCallback ==
    /\ idle_queue # <<>>
    /\ Head(idle_queue).control = "boost"
    /\ LET h == Head(idle_queue)
           s == [checkbutton |-> boost_checkbutton, boost_enabled |-> boost_enabled,
                 control_task_id |-> control_task_id, sources |-> glib_control_timeouts,
                 ledger |-> applied_settings]
           t == IF h.fn = "success_callback"
                THEN toggle_boost_success_callback(s, h.selected, cpu_file_search, boost_files)
                ELSE toggle_boost_failure_callback(s, h.selected, h.arg, cpu_file_search,
                                                   boost_files)
       IN  /\ boost_checkbutton' = t.checkbutton
           /\ boost_enabled' = t.boost_enabled
           /\ control_task_id' = t.timer.control_task_id
           /\ glib_control_timeouts' = t.timer.sources
           /\ applied_settings' = t.ledger
           /\ settings_file' = IF t.saved THEN save_settings(t.ledger) ELSE settings_file
           /\ idle_queue' = Tail(idle_queue)
    /\ UNCHANGED <<boost_files, current_page>>
    /\ UNCHANGED <<cpu_file_search, min_scales, max_scales, cpu_max_min_checkbuttons,
                   apply_max_min_button, governor_dropdown, epb_dropdown, running,
                   last_call, user_edits, tmp_script, script_calls>>
    /\ UNCHANGED <<pboVars, loadVars, walkVars, locVars, execVars, monVars, moreVars>>

\* CPUManager.run_control_tasks (lines 123-131): the control tab's timer fires.
RunControlTasks ==
    /\ \E firing \in glib_control_timeouts :
          LET t == IF control_task_id # None
                   THEN schedule_control_tasks(control_task_id, glib_control_timeouts, firing)
                   ELSE [control_task_id |-> control_task_id, sources |-> glib_control_timeouts]
          IN  /\ control_task_id' = t.control_task_id
              /\ glib_control_timeouts' = t.sources \ {firing}
    /\ boost_checkbutton' =
          update_boost_checkbutton(boost_checkbutton, cpu_file_search, boost_files)
    /\ UNCHANGED <<boost_files, boost_enabled, current_page>>
    /\ UNCHANGED ctlVars
    /\ UNCHANGED <<pboVars, loadVars, walkVars, locVars, execVars, monVars, moreVars>>

\* Another program writes a boost control file.
BoostFileWrittenOutside ==
    /\ user_edits < MaxEdits
    /\ \E p \in DOMAIN boost_files, v \in {"0", "1"} :
          /\ v # boost_files[p]
          /\ boost_files' = [boost_files EXCEPT ![p] = v]
    /\ user_edits' = user_edits + 1
    /\ UNCHANGED <<boost_checkbutton, boost_enabled, control_task_id,
                   glib_control_timeouts, current_page>>
    /\ UNCHANGED <<cpu_file_search, min_scales, max_scales, cpu_max_min_checkbuttons,
                   apply_max_min_button, governor_dropdown, epb_dropdown, applied_settings,
                   settings_file, running, idle_queue, last_call, tmp_script, script_calls>>
    /\ UNCHANGED <<pboVars, loadVars, walkVars, locVars, execVars, monVars, moreVars>>

\* The control tab on a machine whose boost files hold any status; the
\* checkbutton as update_cpu_widgets leaves it (main.py 695-705).
BoostInit ==
    /\ \E m \in BoostMachines : ControlStart(Discovered(m))
    /\ min_scales = LowestScales
    /\ max_scales = LowestScales
    /\ applied_settings = EmptyDict
    /\ settings_file = Ok(EmptyDict)
    /\ boost_files \in [BoostPaths(cpu_file_search) -> {"0", "1"}]
    /\ boost_checkbutton =
          update_boost_checkbutton([active |-> FALSE, sensitive |-> TRUE, visible |-> TRUE],
                                   cpu_file_search, boost_files)
    /\ boost_enabled = None
    /\ control_task_id = Ok(MaxSourceIds + 1)
    /\ glib_control_timeouts = {MaxSourceIds + 1}
    /\ current_page = 1

BoostIdle ==
    /\ boost_files = <<>>
    /\ boost_checkbutton = None
    /\ boost_enabled = None
    /\ control_task_id = None
    /\ glib_control_timeouts = {}
    /\ current_page = 0

BoostNext ==
    \/ ToggleBoost \/ BoostWorkerEnds \/ RunBoostCallback \/ RunControlTasks
    \/ BoostFileWrittenOutside \/ CreateApplyScript

-----------------------------------------------------------------------------

(* PrivilegedActions.run_pkexec_command: worker thread and main loop *)

\* Calls of run_pkexec_command explored.
MaxCalls == 2

\* run_command with the callback called by the worker itself.
run_command_calling(outcome, success_callback, failure_callback) ==
    LET cb == ScheduledCallback(outcome)
        supplied == IF cb.fn = "success_callback" THEN success_callback ELSE failure_callback
    IN  [idle_add |-> <<>>, called |-> IF supplied THEN <<cb>> ELSE <<>>]

\* run_command (lines 33-59) for an outcome of subprocess.run: what it hands to
\* GLib.idle_add and what it calls itself, given which callbacks were supplied.
run_command(outcome, success_callback, failure_callback) ==
    LET cb == ScheduledCallback(outcome)
        supplied == IF cb.fn = "success_callback" THEN success_callback ELSE failure_callback
    IN  [idle_add |-> IF supplied THEN <<cb>> ELSE <<>>, called |-> <<>>]

\* A callback of call k on its way through the main loop, and its run on a thread.
IdleSource(k, cb) == [call |-> k, fn |-> cb.fn, arg |-> cb.arg]
CallbackRun(k, cb, thread) == [call |-> k, fn |-> cb.fn, arg |-> cb.arg, thread |-> thread]

\* run_pkexec_command (lines 29-61), called on the main thread: it starts the
\* worker thread and returns.
RunPkexecCommand ==
    /\ Len(pk_calls) < MaxCalls
    /\ \E success_callback \in BOOLEAN, failure_callback \in BOOLEAN :
          pk_calls' = Append(pk_calls,
                             [success_callback |-> success_callback,
                              failure_callback |-> failure_callback,
                              pc |-> "running", outcome |-> None])
    /\ UNCHANGED <<glib_idle, callback_log>>
    /\ UNCHANGED <<pboVars, loadVars, walkVars, locVars, ctlVars, boostVars, monVars, moreVars>>

\* The worker thread of a call runs run_command to its end.
RunCommand ==
    /\ \E k \in DOMAIN pk_calls, outcome \in ExitOutcomes :
          /\ pk_calls[k].pc = "running"
          /\ LET r == run_command(outcome, pk_calls[k].success_callback,
                                  pk_calls[k].failure_callback)
             IN  /\ pk_calls' = [pk_calls EXCEPT ![k].pc = "done", ![k].outcome = outcome]
                 /\ glib_idle' = glib_idle \o
                       [j \in 1 .. Len(r.idle_add) |-> IdleSource(k, r.idle_add[j])]
                 /\ callback_log' = callback_log \o
                       [j \in 1 .. Len(r.called) |-> CallbackRun(k, r.called[j], "worker")]
    /\ UNCHANGED <<pboVars, loadVars, walkVars, locVars, ctlVars, boostVars, monVars, moreVars>>

\* The main loop dispatches its first idle source: the callback runs on the
\* main thread and, returning None, is removed.
MainLoopIdle ==
    /\ glib_idle # <<>>
    /\ callback_log' = Append(callback_log,
                              CallbackRun(Head(glib_idle).call, Head(glib_idle), "main"))
    /\ glib_idle' = Tail(glib_idle)
    /\ UNCHANGED pk_calls
    /\ UNCHANGED <<pboVars, loadVars, walkVars, locVars, ctlVars, boostVars, monVars, moreVars>>

ExecInit ==
    /\ pk_calls = <<>>
    /\ glib_idle = <<>>
    /\ callback_log = <<>>

ExecIdle == ExecInit

ExecNext == RunPkexecCommand \/ RunCommand \/ MainLoopIdle

-----------------------------------------------------------------------------

(* The monitor timer: schedule_monitor_tasks, run_monitor_tasks *)

\* The steps of run_monitor_tasks out of which an exception may come, in the
\* order they run (lines 110-114); "none" when none raises.
TickSteps ==
    <<"update_cpu_load", "update_clock_speeds", "read_package_temperature",
      "get_current_governor", "update_throttle">>
TickErrors == {"none"} \cup {TickSteps[k] : k \in 2 .. Len(TickSteps)}

\* run_monitor_tasks whose try has no except clause: the exception leaves the
\* method before the timer is scheduled again.
run_monitor_tasks_propagating(raised, task_id) ==
    [logged |-> FALSE, reschedule |-> raised = "none" /\ task_id # None, result |-> FALSE]

\* CPUManager.run_monitor_tasks (lines 107-121) on a tick in which step raised
\* raises: whether it logs, whether it schedules the timer again, what it returns.
run_monitor_tasks(raised, task_id) ==
    [logged |-> raised # "none", reschedule |-> task_id # None, result |-> FALSE]

\* CPUManager.schedule_monitor_tasks (lines 83-87) on the sources GLib holds,
\* while the source firing (or 0 for none) is dispatched.
schedule_monitor_tasks(task_id, sources, firing) ==
    LET kept == IF task_id # None THEN sources \ {task_id.ok} ELSE sources
        id == timeout_add(kept \cup {firing})
    IN  [monitor_task_id |-> Ok(id), sources |-> kept \cup {id}]

\* CPUManager.stop_monitor_tasks (lines 89-93)
stop_monitor_tasks(task_id, sources) ==
    IF task_id # None
    THEN [monitor_task_id |-> None, sources |-> sources \ {task_id.ok}]
    ELSE [monitor_task_id |-> task_id, sources |-> sources]

\* CPUManager.read_stat_file (lines 626-641) at a tick: None when the locator
\* has no stat path, which is when __init__ (line 44) left prev_stat None, and
\* the rows of the file otherwise.
StatReads == IF prev_stat = None THEN {None} ELSE {Ok(s) : s \in Snapshots}

\* A timeout source fires: the main loop runs run_monitor_tasks, whose first
\* step is update_cpu_load, and destroys the source, whose callback returned
\* False.
MonitorTick ==
    /\ \E firing \in glib_timeouts, raised \in TickErrors, curr_stat \in StatReads :
          /\ update_cpu_load(curr_stat)
          /\ LET r == run_monitor_tasks(raised, monitor_task_id)
                 t == IF r.reschedule
                      THEN schedule_monitor_tasks(monitor_task_id, glib_timeouts, firing)
                      ELSE [monitor_task_id |-> monitor_task_id, sources |-> glib_timeouts]
             IN  /\ monitor_task_id' = t.monitor_task_id
                 /\ glib_timeouts' = t.sources \ {firing}
                 /\ last_tick' = Ok([raised |-> raised, logged |-> r.logged,
                                     rescheduled |-> r.reschedule])
    /\ UNCHANGED <<pboVars, walkVars, locVars, ctlVars, boostVars, execVars, moreVars>>

\* on_tab_switch to another tab than the monitor tab (main.py 149-154).
StopMonitorTasks ==
    /\ monitor_task_id # None
    /\ LET t == stop_monitor_tasks(monitor_task_id, glib_timeouts)
       IN  /\ monitor_task_id' = t.monitor_task_id
           /\ glib_timeouts' = t.sources
    /\ last_tick' = None
    /\ UNCHANGED <<pboVars, loadVars, walkVars, locVars, ctlVars, boostVars, execVars, moreVars>>

\* on_tab_switch to the monitor tab (main.py 146-148), or set_update_interval.
ScheduleMonitorTasks ==
    /\ LET t == schedule_monitor_tasks(monitor_task_id, glib_timeouts, 0)
       IN  /\ monitor_task_id' = t.monitor_task_id
           /\ glib_timeouts' = t.sources
    /\ UNCHANGED last_tick
    /\ UNCHANGED <<pboVars, loadVars, walkVars, locVars, ctlVars, boostVars, execVars, moreVars>>

\* CPUManager.__init__ (lines 35, 50): the timer is scheduled at start-up.
MonInit ==
    /\ monitor_task_id = Ok(1)
    /\ glib_timeouts = {1}
    /\ last_tick = None

MonIdle ==
    /\ monitor_task_id = None
    /\ glib_timeouts = {}
    /\ last_tick = None

MonNext == MonitorTick \/ StopMonitorTasks \/ ScheduleMonitorTasks

-----------------------------------------------------------------------------

(* Thermal throttle detection: update_throttle *)

\* The texts a package_throttle_total_time_ms file is read with: the counter
\* values, in order of the number they denote, and a text that is no number.
ThrottleTimeTexts == <<"0", "1", "2">>
ThrottleTexts == {ThrottleTimeTexts[k] : k \in 1 .. Len(ThrottleTimeTexts)} \cup {""}

\* int(file.read().strip())
PyIntOfText(text) ==
    IF \E k \in 1 .. Len(ThrottleTimeTexts) : ThrottleTimeTexts[k] = text
    THEN Ok((CHOOSE k \in 1 .. Len(ThrottleTimeTexts) : ThrottleTimeTexts[k] = text) - 1)
    ELSE Raised("ValueError")

\* The locators update_throttle runs on: discovery on a machine of either
\* vendor, the throttle file found for any of its threads.
ThrottleLocators ==
    {[loc EXCEPT !.cpu_files["package_throttle_time_files"] =
            [i \in found |-> loc.cpu_files["package_throttle_time_files"][i]]] :
        <<loc, found>> \in
            {p \in {Discovered(m) : m \in ControlMachines} \X SUBSET (0 .. MaxLocThreads - 1) :
                p[2] \subseteq DOMAIN p[1].cpu_files["package_throttle_time_files"]}}

\* What the files hold at a tick: per path None (os.path.exists is false) or
\* the text read.
ThrottleFiles(loc) ==
    [{Path("package_throttle_total_time_ms", i) : i \in 0 .. loc.thread_count - 1}
        -> {None} \cup {Ok(t) : t \in ThrottleTexts}]

\* update_throttle whose flag is not reset at the start of the tick.
update_throttle_accumulating(s, loc, files) ==
    LET RECURSIVE loop(_, _)
        loop(i, t) ==
            IF i >= loc.thread_count \/ t.raised # None THEN t
            ELSE LET package_throttle_time_file ==
                         MapGet(loc.cpu_files["package_throttle_time_files"], i)
                 IN  IF ~(Truthy(package_throttle_time_file)
                          /\ files[package_throttle_time_file] # None)
                     THEN loop(i + 1, t)
                     ELSE LET current_throttle_time ==
                                  PyIntOfText(files[package_throttle_time_file].ok)
                          IN  IF ~IsOk(current_throttle_time)
                              THEN [t EXCEPT !.raised = current_throttle_time,
                                             !.reads = Append(@, <<i, current_throttle_time>>)]
                              ELSE loop(i + 1,
                                        [t EXCEPT
                                           !.is_throttling =
                                               \/ @
                                               \/ /\ t.prev[i + 1] # None
                                                  /\ current_throttle_time.ok > t.prev[i + 1].ok,
                                           !.prev[i + 1] = current_throttle_time,
                                           !.reads = Append(@, <<i, current_throttle_time>>)])
        start == [is_throttling |-> s.is_throttling, prev |-> s.prev, label |-> s.label,
                  reads |-> <<>>, raised |-> None]
        done == IF loc.cpu_type = "Intel" THEN loop(0, start) ELSE start
    IN  IF done.raised # None THEN done
        ELSE [done EXCEPT !.label =
                 IF done.is_throttling
                 THEN [visible |-> TRUE, markup |-> "Throttling"]
                 ELSE [@ EXCEPT !.visible = FALSE]]

\* CPUManager.update_throttle (lines 759-787) on the state s = [is_throttling,
\* prev, label]: the flag, the stored counters (prev[i + 1] is
\* prev_package_throttle_time[i]) and the label it leaves, the reads it made
\* in order and the exception that ended its try block, or None.
update_throttle(s, loc, files) ==
    update_throttle_accumulating([s EXCEPT !.is_throttling = FALSE], loc, files)

\* run_monitor_tasks (line 114) or update_monitor_widgets (main.py 489) runs
\* update_throttle on what the files hold now.
UpdateThrottle ==
    /\ \E files \in ThrottleFiles(throttle_cpu_file_search) :
          LET r == update_throttle([is_throttling |-> is_throttling,
                                    prev |-> prev_package_throttle_time,
                                    label |-> thermal_throttle_label],
                                   throttle_cpu_file_search, files)
          IN  /\ is_throttling' = r.is_throttling
              /\ prev_package_throttle_time' = r.prev
              /\ thermal_throttle_label' = r.label
              /\ throttle_tick' = Ok([before |-> prev_package_throttle_time,
                                      reads |-> r.reads, raised |-> r.raised])
    /\ UNCHANGED throttle_cpu_file_search
    /\ UNCHANGED <<pboVars, loadVars, walkVars, locVars, ctlVars, boostVars, execVars, monVars>>
    /\ UNCHANGED <<physVars, tabVars, btnVars>>

\* CPUManager.__init__ (lines 80-81) and the label as main.py 415-417 creates it.
ThrottleInit ==
    /\ throttle_cpu_file_search \in ThrottleLocators
    /\ prev_package_throttle_time = [i \in 1 .. throttle_cpu_file_search.thread_count |-> None]
    /\ is_throttling = FALSE
    /\ thermal_throttle_label = [visible |-> FALSE, markup |-> ""]
    /\ throttle_tick = None

ThrottleIdle ==
    /\ throttle_cpu_file_search = None
    /\ prev_package_throttle_time = <<>>
    /\ is_throttling = FALSE
    /\ thermal_throttle_label = None
    /\ throttle_tick = None

ThrottleNext == UpdateThrottle

-----------------------------------------------------------------------------

(* parse_cpu_info: the number of physical cores *)

\* Largest number of processor blocks of /proc/cpuinfo.
MaxProcessors == 9

\* sum(len(cores) for cores in core_ids_per_physical.values())
RECURSIVE SumOfLens(_)
SumOfLens(d) ==
    IF DOMAIN d = {} THEN 0
    ELSE LET k == CHOOSE x \in DOMAIN d : TRUE
         IN  Cardinality(d[k]) + SumOfLens([j \in DOMAIN d \ {k} |-> d[j]])

PyMax(a, b) == IF a >= b THEN a ELSE b

\* What the loop of parse_cpu_info (lines 280-349) can collect: the fields seen
\* first, the sets of ids over the processor blocks, and the number of blocks,
\* which is at least the number of distinct values of any field.
CpuInfos ==
    LET ids == {"0", "1"}
        core_maps(physical_ids) ==
            UNION {[d -> SUBSET ids \ {{}}] : d \in SUBSET physical_ids}
    IN  {c \in [cpu_cores_field : {None} \cup {Ok(n) : n \in {0, 1, 2}},
                siblings_field : {None} \cup {Ok(n) : n \in {0, 2, 4}},
                physical_ids : SUBSET ids,
                core_ids_per_physical : UNION {core_maps(p) : p \in SUBSET ids},
                processor_count : 0 .. MaxProcessors,
                cpu_parts : SUBSET {"0xd03", "0xd08"},
                clusters : SUBSET ids] :
            /\ DOMAIN c.core_ids_per_physical \subseteq c.physical_ids
            /\ c.processor_count >= SumOfLens(c.core_ids_per_physical)
            /\ c.processor_count >= Cardinality(c.physical_ids)
            /\ c.processor_count >= Cardinality(c.cpu_parts)
            /\ c.processor_count >= Cardinality(c.clusters)
            /\ (c.cpu_cores_field # None \/ c.siblings_field # None) => c.processor_count >= 1}

\* CPUManager._determine_physical_cores (lines 377-446)
determine_physical_cores(c) ==
    LET total_cores_from_topology == SumOfLens(c.core_ids_per_physical)
        cpu_cores_field == c.cpu_cores_field
        siblings_field == c.siblings_field
        processor_count == c.processor_count
    IN  CASE \* Method 1
             /\ cpu_cores_field # None /\ cpu_cores_field.ok > 0
             /\ c.physical_ids # {}
             /\ total_cores_from_topology > 0
             /\ Abs(cpu_cores_field.ok - total_cores_from_topology) <= 1
             -> [method |-> 1, cores |-> cpu_cores_field.ok]
          [] OTHER ->
        CASE \* Method 2
             DOMAIN c.core_ids_per_physical # {} /\ total_cores_from_topology > 0
             -> [method |-> 2, cores |-> total_cores_from_topology]
          [] OTHER ->
        CASE \* Method 3
             /\ Cardinality(c.clusters) > 1
             /\ processor_count \div Cardinality(c.clusters) > 0
             -> [method |-> 3, cores |-> processor_count]
          [] OTHER ->
        CASE \* Method 4
             Cardinality(c.cpu_parts) = 1
             -> [method |-> 4, cores |-> processor_count]
          [] OTHER ->
        CASE \* Method 5
             c.physical_ids # {}
             -> [method |-> 5,
                 cores |-> PyMax(1, processor_count \div Cardinality(c.physical_ids))
                              * Cardinality(c.physical_ids)]
          [] OTHER ->
        CASE \* Method 6, hyperthreading
             /\ siblings_field # None /\ siblings_field.ok > 0
             /\ cpu_cores_field # None /\ cpu_cores_field.ok # 0
             /\ siblings_field.ok > cpu_cores_field.ok
             -> [method |-> 6, cores |-> cpu_cores_field.ok]
          [] \* Method 6, no hyperthreading
             /\ siblings_field # None /\ siblings_field.ok > 0
             /\ ~(/\ cpu_cores_field # None /\ cpu_cores_field.ok # 0
                  /\ siblings_field.ok > cpu_cores_field.ok)
             /\ siblings_field.ok = processor_count
             -> [method |-> 6, cores |-> siblings_field.ok]
          [] OTHER ->
        CASE \* Method 7
             processor_count > 8 /\ c.physical_ids = {} /\ c.cpu_parts # {}
             -> [method |-> 7, cores |-> processor_count]
          [] OTHER ->
             \* Method 8
             [method |-> 8,
              cores |-> IF processor_count > 2
                        THEN PyMax(1, processor_count \div 2) ELSE processor_count]

\* parse_cpu_info, lines 352-361
DeterminePhysicalCores ==
    /\ determined_cores = None
    /\ determined_cores' = Ok(determine_physical_cores(cpuinfo))
    /\ UNCHANGED cpuinfo
    /\ UNCHANGED <<pboVars, loadVars, walkVars, locVars, ctlVars, boostVars, execVars, monVars>>
    /\ UNCHANGED <<thrVars, tabVars, btnVars>>

PhysInit ==
    /\ cpuinfo \in CpuInfos
    /\ determined_cores = None

PhysIdle ==
    /\ cpuinfo = None
    /\ determined_cores = None

PhysNext == DeterminePhysicalCores

-----------------------------------------------------------------------------

(* The notebook's pages, the update interval and both timers *)

\* The pages of the main notebook: the monitor tab and the control tab
\* (main.py 132-137).
Pages == {0, 1}

\* Values of the interval spinbutton, in tenths of a second
\* (settings_window_setup.py 126-127: from 0.1 to 20.0).
IntervalInputs == {1, 10}

\* ClockSpeedsApp.on_tab_switch (main.py 144-154) on the timers t =
\* [monitor_task_id, monitor_sources, control_task_id, control_sources].
on_tab_switch(page_num, t) ==
    LET m_on == schedule_monitor_tasks(t.monitor_task_id, t.monitor_sources, 0)
        m_off == stop_monitor_tasks(t.monitor_task_id, t.monitor_sources)
        c_on == schedule_control_tasks(t.control_task_id, t.control_sources, 0)
        c_off == stop_control_tasks(t.control_task_id, t.control_sources)
    IN  CASE page_num = 0 ->
                [monitor_task_id |-> m_on.monitor_task_id, monitor_sources |-> m_on.sources,
                 control_task_id |-> c_off.control_task_id, control_sources |-> c_off.sources]
          [] page_num = 1 ->
                [monitor_task_id |-> m_off.monitor_task_id, monitor_sources |-> m_off.sources,
                 control_task_id |-> c_on.control_task_id, control_sources |-> c_on.sources]
          [] OTHER ->
                [monitor_task_id |-> m_off.monitor_task_id, monitor_sources |-> m_off.sources,
                 control_task_id |-> c_off.control_task_id, control_sources |-> c_off.sources]

\* set_update_interval that schedules only the timer of the page shown.
set_update_interval_of_page(interval, page, t) ==
    LET m == IF page = 0
             THEN schedule_monitor_tasks(t.monitor_task_id, t.monitor_sources, 0)
             ELSE [monitor_task_id |-> t.monitor_task_id, sources |-> t.monitor_sources]
        c == IF page = 1
             THEN schedule_control_tasks(t.control_task_id, t.control_sources, 0)
             ELSE [control_task_id |-> t.control_task_id, sources |-> t.control_sources]
    IN  [update_interval |-> PyMax(1, Min(200, interval)),
         monitor_task_id |-> m.monitor_task_id, monitor_sources |-> m.sources,
         control_task_id |-> c.control_task_id, control_sources |-> c.sources]

\* CPUManager.set_update_interval (lines 133-139); page is the page shown,
\* which the method does not look at.
set_update_interval(interval, page, t) ==
    LET m == schedule_monitor_tasks(t.monitor_task_id, t.monitor_sources, 0)
        c == schedule_control_tasks(t.control_task_id, t.control_sources, 0)
    IN  [update_interval |-> PyMax(1, Min(200, interval)),
         monitor_task_id |-> m.monitor_task_id, monitor_sources |-> m.sources,
         control_task_id |-> c.control_task_id, control_sources |-> c.sources]

Timers ==
    [monitor_task_id |-> monitor_task_id, monitor_sources |-> glib_timeouts,
     control_task_id |-> control_task_id, control_sources |-> glib_control_timeouts]

\* The user selects the other page of the notebook.
OnTabSwitch ==
    /\ \E page_num \in Pages \ {current_page} :
          LET t == on_tab_switch(page_num, Timers)
          IN  /\ current_page' = page_num
              /\ monitor_task_id' = t.monitor_task_id
              /\ glib_timeouts' = t.monitor_sources
              /\ control_task_id' = t.control_task_id
              /\ glib_control_timeouts' = t.control_sources
    /\ UNCHANGED <<last_tick, boost_files, boost_checkbutton, boost_enabled, update_interval>>
    /\ UNCHANGED <<pboVars, loadVars, walkVars, locVars, ctlVars, execVars, thrVars, physVars,
                   btnVars>>

\* on_interval_changed (settings_window_setup.py 217-221): the user changes the
\* interval in the settings window, whatever page the main window shows.
SetUpdateInterval ==
    /\ \E interval \in IntervalInputs \ {update_interval} :
          LET t == set_update_interval(interval, current_page, Timers)
          IN  /\ update_interval' = t.update_interval
              /\ monitor_task_id' = t.monitor_task_id
              /\ glib_timeouts' = t.monitor_sources
              /\ control_task_id' = t.control_task_id
              /\ glib_control_timeouts' = t.control_sources
    /\ UNCHANGED <<last_tick, boost_files, boost_checkbutton, boost_enabled, current_page>>
    /\ UNCHANGED <<pboVars, loadVars, walkVars, locVars, ctlVars, execVars, thrVars, physVars,
                   btnVars>>

\* Machines without a readable /proc/stat: the ticks sample no load.
TabMachines ==
    {m \in Machines : m.threads = MaxLocThreads /\ m.cpu_dir # "none" /\ ~m.stat /\ m.thermal}

\* The program after start-up: the monitor page shown (CPUManager.__init__
\* lines 35-36, 41, 44, 47), the control tab's widgets created, no control timer.
TabsStart ==
    /\ \E m \in TabMachines : ControlStart(Discovered(m))
    /\ prev_stat = None
    /\ prev_loads = Ok(<<>>)
    /\ calc_args = None
    /\ calc_result = None
    /\ min_scales = LowestScales
    /\ max_scales = LowestScales
    /\ applied_settings = EmptyDict
    /\ settings_file = Ok(EmptyDict)
    /\ boost_files \in [BoostPaths(cpu_file_search) -> {"0", "1"}]
    /\ boost_checkbutton =
          update_boost_checkbutton([active |-> FALSE, sensitive |-> TRUE, visible |-> TRUE],
                                   cpu_file_search, boost_files)
    /\ boost_enabled = None
    /\ control_task_id = None
    /\ glib_control_timeouts = {}
    /\ current_page = 0
    /\ update_interval = 10

TabIdle == update_interval = 10

TabsNext ==
    \/ OnTabSwitch \/ SetUpdateInterval \/ MonitorTick \/ RunControlTasks
    \/ ToggleBoost \/ BoostWorkerEnds \/ RunBoostCallback

-----------------------------------------------------------------------------

(* The Apply TDP and Apply PBO buttons, and all six controls together *)

\* Values of the TDP scale explored, in watts.
TdpWatts == {15}

\* Invocations and callbacks not yet run that the controls explored together
\* have at a time.
MaxInFlight == 2

\* CPUManager.set_intel_tdp that leaves its button as it finds it.
set_intel_tdp_keeping_button(table, exists, watts, sensitive) ==
    IF table.cpu_type # "Intel" THEN [sensitive |-> sensitive, start |-> FALSE, command |-> <<>>]
    ELSE IF ~Truthy(table.intel_tdp_files.tdp) \/ ~exists
    THEN [sensitive |-> sensitive, start |-> FALSE, command |-> <<>>]
    ELSE [sensitive |-> sensitive, start |-> TRUE,
          command |-> <<Write(watts * 1000000, table.intel_tdp_files.tdp)>>]

\* CPUManager.set_intel_tdp (lines 1138-1200); exists is os.path.exists of the
\* TDP file, sensitive the state of the button the handler finds.
set_intel_tdp(table, exists, watts, sensitive) ==
    IF table.cpu_type # "Intel" THEN [sensitive |-> sensitive, start |-> FALSE, command |-> <<>>]
    ELSE IF ~Truthy(table.intel_tdp_files.tdp) \/ ~exists
    THEN [sensitive |-> sensitive, start |-> FALSE, command |-> <<>>]
    ELSE [sensitive |-> FALSE, start |-> TRUE,
          command |-> <<Write(watts * 1000000, table.intel_tdp_files.tdp)>>]

\* CPUManager.set_pbo_curve_offset (lines 1258-1324); installed is
\* global_state.is_ryzen_smu_installed().
set_pbo_curve_offset(table, installed, offset_value, cores, sensitive) ==
    IF table.cpu_type # "Other" \/ ~installed
    THEN [sensitive |-> sensitive, start |-> FALSE, command |-> <<>>]
    ELSE LET command == CPUManager_create_pbo_command(offset_value, cores)
         IN  IF IsOk(command)
             THEN [sensitive |-> FALSE, start |-> TRUE, command |-> command.ok]
             ELSE [sensitive |-> TRUE, start |-> FALSE, command |-> <<>>]

\* The user clicks the sensitive Apply TDP button (main.py 614-615).
ApplyIntelTdp ==
    /\ apply_tdp_button
    /\ \E exists \in BOOLEAN, watts \in TdpWatts :
          LET e == set_intel_tdp(cpu_file_search, exists, watts, apply_tdp_button)
          IN  /\ apply_tdp_button' = e.sensitive
              /\ running' = IF e.start
                            THEN Append(running, Started("tdp", e.command, watts * 1000000))
                            ELSE running
              /\ last_call' = CallRecord("set_intel_tdp", watts, e.command,
                                         SubSeq(running', Len(running) + 1, Len(running')),
                                         None)
    /\ UNCHANGED apply_pbo_button
    /\ UNCHANGED <<cpu_file_search, min_scales, max_scales, cpu_max_min_checkbuttons,
                   apply_max_min_button, governor_dropdown, epb_dropdown, applied_settings,
                   settings_file, idle_queue, user_edits, tmp_script, script_calls>>
    /\ UNCHANGED <<pboVars, loadVars, walkVars, locVars, boostVars, execVars, monVars,
                   thrVars, physVars, tabVars>>

\* The user clicks the sensitive Apply PBO button (main.py 626-627).
ApplyPboOffset ==
    /\ apply_pbo_button
    /\ \E installed \in BOOLEAN :
          LET e == set_pbo_curve_offset(cpu_file_search, installed, pbo_offset_value,
                                        physical_cores, apply_pbo_button)
          IN  /\ apply_pbo_button' = e.sensitive
              /\ running' = IF e.start
                            THEN Append(running, Started("pbo", e.command, pbo_offset_value))
                            ELSE running
              /\ last_call' = CallRecord("set_pbo_curve_offset", pbo_offset_value, e.command,
                                         SubSeq(running', Len(running) + 1, Len(running')),
                                         None)
    /\ UNCHANGED apply_tdp_button
    /\ UNCHANGED <<cpu_file_search, min_scales, max_scales, cpu_max_min_checkbuttons,
                   apply_max_min_button, governor_dropdown, epb_dropdown, applied_settings,
                   settings_file, idle_queue, user_edits, tmp_script, script_calls>>
    /\ UNCHANGED <<pboVars, loadVars, walkVars, locVars, boostVars, execVars, monVars,
                   thrVars, physVars, tabVars>>

\* The GLib main loop runs the callback of a TDP or PBO invocation
\* (cpu_management.py 1166-1183, 1288-1305).
RunButtonCallback ==
    /\ idle_queue # <<>>
    /\ ControlOf(Head(idle_queue)) \in {"tdp", "pbo"}
    /\ LET h == Head(idle_queue)
           key == IF h.control = "tdp" THEN "tdp" ELSE "pbo_offset"
       IN  /\ apply_tdp_button' = IF h.control = "tdp" THEN TRUE ELSE apply_tdp_button
           /\ apply_pbo_button' = IF h.control = "pbo" THEN TRUE ELSE apply_pbo_button
           /\ applied_settings' = IF h.fn = "success_callback"
                                  THEN DictSet(applied_settings, key, h.selected)
                                  ELSE applied_settings
           /\ settings_file' = IF h.fn = "success_callback"
                               THEN save_settings(applied_settings')
                               ELSE settings_file
           /\ idle_queue' = Tail(idle_queue)
    /\ UNCHANGED <<cpu_file_search, min_scales, max_scales, cpu_max_min_checkbuttons,
                   apply_max_min_button, governor_dropdown, epb_dropdown, running,
                   last_call, user_edits, tmp_script, script_calls>>
    /\ UNCHANGED <<pboVars, loadVars, walkVars, locVars, boostVars, execVars, monVars,
                   thrVars, physVars, tabVars>>

ButtonsIdle ==
    /\ apply_tdp_button = TRUE
    /\ apply_pbo_button = TRUE

\* The machines the six controls are explored on: one with intel_pstate, one
\* with cpufreq, every thread with its control files.
machine_of_controls(table) ==
    \E m \in BoostMachines :
        /\ m.no_turbo /\ m.cpufreq = 0 .. m.threads - 1
        /\ table = Discovered(m)

\* The control tab with its six controls as the window shows them at start.
ControlsInit ==
    /\ BoostInit
    /\ machine_of_controls(cpu_file_search)
    /\ boost_files = [p \in BoostPaths(cpu_file_search) |-> "1"]
    /\ apply_tdp_button = TRUE
    /\ apply_pbo_button = TRUE

\* Whose callbacks wait in a queue of the main loop, and which.
QueueTags(queue) == [k \in DOMAIN queue |-> <<ControlOf(queue[k]), queue[k].fn>>]

\* What changes whenever a thread ends or the main loop runs a callback.
in_flight == <<Len(running), QueueTags(idle_queue)>>

\* What the user does with the six controls.
UserActs ==
    \/ ApplySpeedLimits \/ SelectGovernor \/ SelectEpb \/ ToggleBoost
    \/ ApplyIntelTdp \/ ApplyPboOffset

\* The dropdown items the user picks when all six controls are explored
\* together: the placeholder, a valid item and, of the governors, the one the
\* program does not know.
ExploredItems ==
    {"Select Governor", "interactive", "performance",
     "Select Energy Performance Bias", "6 Normal"}

ControlsNext ==
    \/ /\ Len(running) + Len(idle_queue) < MaxInFlight
       /\ UserActs
       /\ {governor_dropdown'.selected, epb_dropdown'.selected} \subseteq ExploredItems
    \/ BoostWorkerEnds \/ RunIdleCallback \/ RunBoostCallback \/ RunButtonCallback

-----------------------------------------------------------------------------

(* The specifications *)

\* The parts added to the control tab, not in use.
MoreIdle == ThrottleIdle /\ PhysIdle /\ TabIdle /\ ButtonsIdle

ExtIdle == BoostIdle /\ ExecIdle /\ MonIdle /\ MoreIdle

InitPbo == PboInit /\ LoadIdle /\ WalkIdle /\ LocIdle /\ CtlIdle /\ ExtIdle
SpecPbo == InitPbo /\ [][PboNext]_vars

InitLoad == LoadInit /\ PboIdle /\ WalkIdle /\ LocIdle /\ CtlIdle /\ ExtIdle
SpecLoad == InitLoad /\ [][LoadNext]_vars

InitWalk == WalkInit /\ PboIdle /\ LoadIdle /\ LocIdle /\ CtlIdle /\ ExtIdle
SpecWalk == InitWalk /\ [][WalkNext]_vars

InitLocator == LocInit /\ PboIdle /\ LoadIdle /\ WalkIdle /\ CtlIdle /\ ExtIdle
SpecLocator == InitLocator /\ [][LocNext]_vars

\* The control tab: speed limits, the privileged executor, the ledger.
Init == SpeedInit /\ PboIdle /\ LoadIdle /\ WalkIdle /\ LocIdle /\ ExtIdle
Spec == Init /\ [][SpeedNext]_vars

\* The control tab: the governor and energy-perf-bias dropdowns.
InitDropdown == DropdownInit /\ PboIdle /\ LoadIdle /\ WalkIdle /\ LocIdle /\ ExtIdle
SpecDropdown == InitDropdown /\ [][DropdownNext]_vars

\* The boot script generator on the ledgers successful applies leave.
InitScript == ScriptInit /\ PboIdle /\ LoadIdle /\ WalkIdle /\ LocIdle /\ ExtIdle
SpecScript == InitScript /\ [][ScriptNext]_vars

\* The control tab: the boost checkbutton, its invocations and the boot script.
InitBoost == BoostInit /\ PboIdle /\ LoadIdle /\ WalkIdle /\ LocIdle /\ ExecIdle /\ MonIdle /\ MoreIdle
SpecBoost == InitBoost /\ [][BoostNext]_vars

\* The privileged executor: calls, worker threads, the main loop.
InitExec == ExecInit /\ PboIdle /\ LoadIdle /\ WalkIdle /\ LocIdle /\ CtlIdle /\ BoostIdle /\ MonIdle /\ MoreIdle
SpecExec == InitExec /\ [][ExecNext]_vars

\* Thermal throttle detection, tick after tick.
InitThrottle ==
    ThrottleInit /\ PboIdle /\ LoadIdle /\ WalkIdle /\ LocIdle /\ CtlIdle /\ BoostIdle
    /\ ExecIdle /\ MonIdle /\ PhysIdle /\ TabIdle /\ ButtonsIdle
SpecThrottle == InitThrottle /\ [][ThrottleNext]_vars

\* The physical core count of what /proc/cpuinfo can hold.
InitPhys ==
    PhysInit /\ PboIdle /\ LoadIdle /\ WalkIdle /\ LocIdle /\ CtlIdle /\ BoostIdle
    /\ ExecIdle /\ MonIdle /\ ThrottleIdle /\ TabIdle /\ ButtonsIdle
SpecPhys == InitPhys /\ [][PhysNext]_vars

\* Both timers under page switches, interval changes, ticks and boost toggles.
InitTabs ==
    TabsStart /\ MonInit /\ PboIdle /\ WalkIdle /\ LocIdle /\ ExecIdle /\ ThrottleIdle
    /\ PhysIdle /\ ButtonsIdle
SpecTabs == InitTabs /\ [][TabsNext]_vars

\* All six controls of the control tab.
InitControls ==
    ControlsInit /\ PboIdle /\ LoadIdle /\ WalkIdle /\ LocIdle /\ ExecIdle /\ MonIdle
    /\ ThrottleIdle /\ PhysIdle /\ TabIdle
SpecControls == InitControls /\ [][ControlsNext]_vars

\* The thread that the handler of control c started ends.
ThreadEnds(c) ==
    /\ BoostWorkerEnds
    /\ Cardinality({k \in DOMAIN running' : ControlOf(running'[k]) = c})
          < Cardinality({k \in DOMAIN running : ControlOf(running[k]) = c})

\* The same with the scheduling the program relies on: every thread that
\* run_pkexec_command started is a thread of its own and runs until its pkexec
\* ends (privileged_actions.py 33-61), and the GLib main loop runs every
\* callback handed to idle_add, in the order they were handed.
ControlsFairness ==
    /\ \A c \in {"speed", "governor", "boost", "tdp", "pbo"} :
          WF_in_flight(ThreadEnds(c))
    /\ WF_in_flight(RunIdleCallback \/ RunBoostCallback \/ RunButtonCallback)
SpecControlsFair == InitControls /\ [][ControlsNext]_vars /\ ControlsFairness

\* The monitor tab's timer and its ticks.
InitMonitor == MonInit /\ LoadInit /\ PboIdle /\ WalkIdle /\ LocIdle /\ CtlIdle /\ BoostIdle /\ ExecIdle /\ MoreIdle
SpecMonitor == InitMonitor /\ [][MonNext]_vars

\* C3: for every offset magnitude v in 0..65535 and core id c in 0..15, both
\* create_pbo_command functions emit
\* smu_args_value = ((((c & 8) << 5) | (c & 7)) << 20) | ((-v) mod 65536).
ExpectedSmuArgs(v, c) ==
    ((IF c >= 8 THEN 256 ELSE 0) + (c % 8)) * 1048576 + ((65536 - v) % 65536)

EmitsExpectedArgs(command, v, cores) ==
    /\ IsOk(command)
    /\ Len(command.ok) = 2 * cores
    /\ \A c \in 0 .. cores - 1 :
          c <= 15 => command.ok[2 * c + 1] = Write(ExpectedSmuArgs(v, c), SmuArgsFile)

C3_PboEncodingInBoth ==
    /\ manager_pbo_command # None =>
          EmitsExpectedArgs(manager_pbo_command, pbo_offset_value, physical_cores)
    /\ applier_pbo_command # None =>
          EmitsExpectedArgs(applier_pbo_command, pbo_offset_value, physical_cores)

\* C4: calculate_load returns, for each row pair, 100 * (total_diff - idle_diff)
\* / total_diff when total_diff # 0 and 0.0 when total_diff = 0, and raises no
\* division error; prev all zero with curr (50,0,50,100) gives 50.0, prev = curr 0.0.
RowSum(row) == row[2] + row[3] + row[4] + row[5]

ExpectedLoad(prev_row, curr_row) ==
    LET total_diff == RowSum(curr_row) - RowSum(prev_row)
        idle_diff == curr_row[5] - prev_row[5]
    IN  IF total_diff = 0 THEN [num |-> 0, den |-> 1]
        ELSE Frac(100 * (total_diff - idle_diff), total_diff)

\* The fraction f equals the integer k.
FracIs(f, k) == f.num = k * f.den

C4_LoadFormula ==
    calc_args # None =>
        LET prev == calc_args.ok[1].ok
            curr == calc_args.ok[2].ok
        IN  /\ IsOk(calc_result)
            /\ \A k \in 1 .. Min(Len(prev), Len(curr)) :
                  /\ prev[k][1] \in DOMAIN calc_result.ok
                  /\ calc_result.ok[prev[k][1]] = ExpectedLoad(prev[k], curr[k])
                  /\ (Tail(prev[k]) = <<0, 0, 0, 0>> /\ Tail(curr[k]) = <<50, 0, 50, 100>>)
                        => FracIs(calc_result.ok[prev[k][1]], 50)
                  /\ Tail(prev[k]) = Tail(curr[k]) => FracIs(calc_result.ok[prev[k][1]], 0)

\* A call on the two example pairs: one row with no difference, one from all zero
\* to (50,0,50,100).
C4_Witness ==
    /\ calc_args # None
    /\ IsOk(calc_result)
    /\ LET prev == calc_args.ok[1].ok
           curr == calc_args.ok[2].ok
       IN  /\ Len(prev) = 2 /\ Len(curr) = 2
           /\ prev[1] = curr[1]
           /\ Tail(prev[2]) = <<0, 0, 0, 0>> /\ Tail(curr[2]) = <<50, 0, 50, 100>>
           /\ FracIs(calc_result.ok[prev[2][1]], 50)
           /\ FracIs(calc_result.ok[prev[1][1]], 0)

\* C5: a walk over a tree with a symlink back to an ancestor terminates, never
\* descends through the symlink, and yields every real directory under the root
\* exactly once.
DirsUnder(t, base) ==
    {d \in t.dirs : Len(d) >= Len(Dir(base)) /\ SubSeq(d, 1, Len(Dir(base))) = Dir(base)}

YieldCount(d) == Cardinality({k \in 1 .. Len(yielded) : Dir(yielded[k].path) = d})

ThroughSymlink(t, path) ==
    \E n \in 1 .. Len(Dir(path)) : SubSeq(Dir(path), 1, n) \in t.links

C5_WalkYieldsEveryDirOnce ==
    walk_state = "done" =>
        /\ \A k \in 1 .. Len(yielded) : ~ThroughSymlink(tree, yielded[k].path)
        /\ \A d \in DirsUnder(tree, base_path) : YieldCount(d) = 1

\* C8: constructing the Locator on a persisted table whose /proc/stat path names
\* a file that does not exist triggers a full re-discovery instead of leaving the
\* stale path in proc_files.  (Stated for the constructions that complete; the
\* ones that raise are the subject of C9.)
StalePersistedStat ==
    /\ cache_file # None
    /\ Truthy(cache_file.ok.proc_files.stat)
    /\ ~machine.stat

C8_StaleStatRediscovered ==
    (ctor_outcome = "constructed" /\ locator # None /\ StalePersistedStat) =>
        /\ rediscovered
        /\ ~Truthy(locator.ok.proc_files.stat)

\* C9: whenever the persisted table fails validation, constructing the Locator
\* goes on with a full re-discovery and completes without raising.
PersistedTableInvalid ==
    /\ cache_file # None
    /\ ValidationErrors(LoadedFromCache(machine, cache_file.ok)) # {}

C9_InvalidTableRediscovered ==
    (ctor_outcome # "none" /\ PersistedTableInvalid) =>
        /\ ctor_outcome = "constructed"
        /\ rediscovered

\* C1: in apply_cpu_clock_speed_limits every thread whose checkbutton is active,
\* whose (min, max) in whole MHz satisfies 0 <= min <= max <= 6000 and whose
\* scaling_min_freq and scaling_max_freq files are both resolved gets exactly two
\* commands, one writing max * 1000 to its scaling_max_freq file and one writing
\* min * 1000 to its scaling_min_freq file; an unchecked thread gets none; and all
\* built commands go into one privileged invocation.
SpeedCall == last_call # None /\ last_call.ok.handler = "apply_cpu_clock_speed_limits"

MinMHz(c, i) == c.min_scales[i] \div 100
MaxMHz(c, i) == c.max_scales[i] \div 100

SpeedsInRange(c, i) == 0 <= MinMHz(c, i) /\ MinMHz(c, i) <= MaxMHz(c, i) /\ MaxMHz(c, i) <= 6000

BothFilesResolved(i) ==
    /\ i \in DOMAIN cpu_file_search.cpu_files["scaling_max_files"]
    /\ i \in DOMAIN cpu_file_search.cpu_files["scaling_min_files"]

\* The positions of the commands of a list that write to a file of thread i.
CommandsOfThread(list, i) == {k \in 1 .. Len(list) : list[k].tee[2] = i}

C1_TwoCommandsPerValidThread ==
    SpeedCall =>
        LET c == last_call.ok
            list == c.command_list
        IN  /\ \A i \in DOMAIN c.checkbuttons :
                  /\ (c.checkbuttons[i] /\ SpeedsInRange(c, i) /\ BothFilesResolved(i)) =>
                        /\ Cardinality(CommandsOfThread(list, i)) = 2
                        /\ \E k \in CommandsOfThread(list, i) :
                              list[k] = Write(MaxMHz(c, i) * 1000, Path("scaling_max_freq", i))
                        /\ \E k \in CommandsOfThread(list, i) :
                              list[k] = Write(MinMHz(c, i) * 1000, Path("scaling_min_freq", i))
                  /\ ~c.checkbuttons[i] => CommandsOfThread(list, i) = {}
            /\ list # <<>> => (Len(c.started) = 1 /\ c.started[1].command = list)
            /\ list = <<>> => c.started = <<>>

\* An apply with a checked valid thread, an unchecked thread, and its invocation.
C1_Witness ==
    /\ SpeedCall
    /\ LET c == last_call.ok
       IN  /\ \E i \in DOMAIN c.checkbuttons :
                 /\ c.checkbuttons[i] /\ SpeedsInRange(c, i) /\ BothFilesResolved(i)
                 /\ MinMHz(c, i) < MaxMHz(c, i)
                 /\ Cardinality(CommandsOfThread(c.command_list, i)) = 2
           /\ \E i \in DOMAIN c.checkbuttons : ~c.checkbuttons[i]
           /\ Len(c.started) = 1

\* C2: when an enabled thread's (min, max) has min > max or a value outside
\* [0, 6000], apply_cpu_clock_speed_limits builds no command, starts no
\* invocation and leaves the ledger unchanged, also when other enabled threads
\* carry valid values.
C2_InvalidThreadRejectsRequest ==
    SpeedCall =>
        LET c == last_call.ok
        IN  (\E i \in DOMAIN c.checkbuttons : c.checkbuttons[i] /\ ~SpeedsInRange(c, i)) =>
                /\ c.command_list = <<>>
                /\ c.started = <<>>
                /\ applied_settings = c.applied_settings

\* C6: set_cpu_governor on a governor of the fixed set builds exactly one write
\* command for each thread that has a governor file and none for the others, and
\* submits them as one invocation; on any other selection it builds no command
\* and starts no invocation.
GovernorCall == last_call # None /\ last_call.ok.handler = "set_cpu_governor"

FixedGovernors ==
    {"conservative", "ondemand", "performance", "powersave", "schedutil", "userspace"}

C6_GovernorCommands ==
    GovernorCall =>
        LET c == last_call.ok
            list == c.command_list
            files == cpu_file_search.cpu_files["governor_files"]
        IN  IF c.selected \in FixedGovernors
            THEN /\ \A i \in 0 .. cpu_file_search.thread_count - 1 :
                       IF i \in DOMAIN files
                       THEN /\ Cardinality(CommandsOfThread(list, i)) = 1
                            /\ \E k \in CommandsOfThread(list, i) :
                                  list[k] = Write(c.selected, Path("scaling_governor", i))
                       ELSE CommandsOfThread(list, i) = {}
                 /\ list # <<>> => (Len(c.started) = 1 /\ c.started[1].command = list)
                 /\ list = <<>> => c.started = <<>>
            ELSE list = <<>> /\ c.started = <<>>

\* "performance" picked on a machine one of whose threads has no governor file.
C6_Witness ==
    /\ GovernorCall
    /\ last_call.ok.selected = "performance"
    /\ Len(last_call.ok.command_list) = 1
    /\ cpu_file_search.thread_count > 1
    /\ Len(last_call.ok.started) = 1

\* C7: set_energy_perf_bias with a value of {0, 4, 6, 8, 15} on a table that
\* holds per-thread energy_perf_bias files under the Locator's role key builds
\* one write command per thread that has such a file and starts exactly one
\* invocation.
EpbCall == last_call # None /\ last_call.ok.handler = "set_energy_perf_bias"

C7_EpbCommands ==
    EpbCall =>
        LET c == last_call.ok
            files == cpu_file_search.cpu_files["energy_perf_bias_files"]
        IN  (c.selected # "Select Energy Performance Bias" /\ DOMAIN files # {}) =>
                /\ Len(c.command_list) = Cardinality(DOMAIN files)
                /\ Len(c.started) = 1

\* C10: two calls of create_apply_script on the same ledger file contents and
\* the same control-file table give the same result: the same script text, or
\* None both times.
C10_ScriptIdempotent ==
    Len(script_calls) = 2 =>
        LET first == script_calls[1]
            second == script_calls[2]
        IN  (first.settings = second.settings /\ first.table = second.table) =>
                /\ first.result = second.result
                /\ second.result # None => first.script = second.script

\* Two calls on a ledger that yields a script of several commands.
C10_Witness ==
    /\ Len(script_calls) = 2
    /\ script_calls[1].settings = script_calls[2].settings
    /\ script_calls[2].result = Ok(TmpScriptPath)
    /\ script_calls[1].script = script_calls[2].script
    /\ Len(script_calls[2].script.ok) > 2

\* C11: for every ledger reachable through successful applies, the writes (target
\* file, value) of the script create_apply_script produces equal, per setting
\* kind, the writes of the most recent successfully executed live command of that
\* kind; for the frequency kind: when the success callback of an Apply Speed
\* Limits invocation stands at the head of the main loop's queue, the script
\* built from the ledger that callback saves carries as its frequency writes
\* exactly the writes of the command that invocation executed (only the threads
\* checked in that apply, with the values it wrote).
IsFrequencyWrite(c) ==
    "tee" \in DOMAIN c /\ c.tee[1] \in {"scaling_max_freq", "scaling_min_freq"}

SpeedSuccessPending ==
    /\ idle_queue # <<>>
    /\ Head(idle_queue).control = "speed"
    /\ Head(idle_queue).fn = "success_callback"

C11_ScriptEqualsLiveWrites ==
    SpeedSuccessPending =>
        LET built == create_apply_script(save_settings(SpeedLedger(applied_settings)),
                                         cpu_file_search)
        IN  /\ IsOk(built)
            /\ SelectSeq(built.ok, IsFrequencyWrite) = Head(idle_queue).command

SourcesOf(k) == {j \in DOMAIN glib_idle : glib_idle[j].call = k}
RunsOf(k) == {j \in DOMAIN callback_log : callback_log[j].call = k}

\* The callbacks call k has scheduled: those waiting and those already run.
ScheduledBy(k) ==
    {[fn |-> glib_idle[j].fn, arg |-> glib_idle[j].arg] : j \in SourcesOf(k)}
        \cup {[fn |-> callback_log[j].fn, arg |-> callback_log[j].arg] : j \in RunsOf(k)}

C13_ExactlyOneCallback ==
    \A k \in DOMAIN pk_calls :
        LET c == pk_calls[k]
        IN  /\ c.pc = "running" => (SourcesOf(k) = {} /\ RunsOf(k) = {})
            /\ (c.pc = "done" /\ c.success_callback /\ c.failure_callback) =>
                  /\ Cardinality(SourcesOf(k)) + Cardinality(RunsOf(k)) = 1
                  /\ \A cb \in ScheduledBy(k) :
                        /\ cb.fn \in {"success_callback", "failure_callback"}
                        /\ cb.fn = "success_callback" <=> c.outcome = Ok(0)
                        /\ (cb.fn = "failure_callback" /\ cb.arg = "canceled")
                              <=> c.outcome = Ok(126)

\* A call that exited with 0, one that exited with 127, both with their
\* callbacks run.
C13_Witness ==
    /\ Len(pk_calls) = 2
    /\ \A k \in DOMAIN pk_calls :
          pk_calls[k].pc = "done" /\ pk_calls[k].success_callback /\ pk_calls[k].failure_callback
    /\ pk_calls[1].outcome = Ok(0) /\ pk_calls[2].outcome = Ok(127)
    /\ glib_idle = <<>>
    /\ Len(callback_log) = 2

\* C18: the success and failure callbacks of a privileged invocation never run
\* on the worker thread that runs the elevation helper: every run of a callback
\* is a dispatch of the main loop, one at a time.
C18_CallbacksOnMainLoop ==
    /\ \A j \in DOMAIN callback_log : callback_log[j].thread = "main"
    /\ \A k \in DOMAIN pk_calls : Cardinality(RunsOf(k)) <= 1

\* A success callback and a failure callback have run while another worker is
\* still in its subprocess.
C18_Witness ==
    /\ \E j \in DOMAIN callback_log : callback_log[j].fn = "failure_callback"
    /\ \E j \in DOMAIN callback_log : callback_log[j].thread = "main"
    /\ \E k \in DOMAIN pk_calls : pk_calls[k].pc = "running"

\* C14: a walk of a root whose directories were memoized by an earlier walk
\* yields the same (path, subdirs, files) triples as that walk did, every
\* descendant directory included: when the walk is exhausted, every triple the
\* cache holds for the root or for a directory below it has been yielded.
MemoizedUnderBase ==
    {e \in cache :
        \/ e.path = base_path
        \/ /\ Last(e.path) # ""
           /\ Len(e.path) > Len(Dir(base_path))
           /\ SubSeq(e.path, 1, Len(Dir(base_path))) = Dir(base_path)}

C14_SecondWalkYieldsSameTriples ==
    walk_state = "done" =>
        \A e \in MemoizedUnderBase : \E k \in 1 .. Len(yielded) : yielded[k] = e

\* C16: for every pair of previous and current /proc/stat rows, rows in which a
\* counter is lower in the current snapshot included, every load calculate_load
\* reports lies in [0, 100].
C16_LoadWithinBounds ==
    (calc_args # None /\ IsOk(calc_result)) =>
        \A id \in DOMAIN calc_result.ok :
            /\ calc_result.ok[id].num >= 0
            /\ calc_result.ok[id].num <= 100 * calc_result.ok[id].den

\* C15: for both vendors the value toggle_boost writes to reach a boost state,
\* read back by read_boost_file with the same vendor flag, yields that state
\* (Intel: enabling writes "0" to no_turbo; generic cpufreq: enabling writes "1"
\* to each per-thread boost file), and the boost writes of the script
\* create_apply_script builds from a ledger read back as the ledger's state.
BoostCall == last_call # None /\ last_call.ok.handler = "toggle_boost"

\* The vendor flag find_boost_type passes for the table's boost files.
IntelFlag == cpu_file_search.cpu_type = "Intel" /\ Truthy(cpu_file_search.intel_boost_path)

IsBoostWrite(c) == "tee" \in DOMAIN c /\ c.tee \in BoostPaths(cpu_file_search)

C15_BoostWriteReadsBack ==
    /\ BoostCall =>
          LET c == last_call.ok
          IN  /\ \A k \in DOMAIN c.command_list :
                    /\ IsBoostWrite(c.command_list[k])
                    /\ read_boost_file(c.command_list[k].echo, IntelFlag) = c.selected
              /\ IntelFlag => c.command_list =
                    <<Write(IF c.selected THEN "0" ELSE "1", cpu_file_search.intel_boost_path)>>
    /\ \A n \in DOMAIN script_calls :
          LET call == script_calls[n]
          IN  (call.result # None /\ "boost" \in DOMAIN call.settings.ok) =>
                  \A k \in DOMAIN call.script.ok :
                      IsBoostWrite(call.script.ok[k]) =>
                          read_boost_file(call.script.ok[k].echo, IntelFlag)
                              = call.settings.ok["boost"]

\* On an Intel table: a toggle that enables boost, and a script built from a
\* ledger that holds a boost state.
C15_Witness ==
    /\ BoostCall
    /\ IntelFlag
    /\ last_call.ok.selected
    /\ last_call.ok.command_list # <<>>
    /\ \E n \in DOMAIN script_calls :
          /\ script_calls[n].result # None
          /\ "boost" \in DOMAIN script_calls[n].settings.ok
          /\ \E k \in DOMAIN script_calls[n].script.ok :
                IsBoostWrite(script_calls[n].script.ok[k])

\* C17: the command either builder produces for a PBO offset contains, for every
\* physical core id 0 .. physical_cores - 1 and in core order, exactly two
\* writes: first the core's args value to smu_args, then the opcode 0x35 to the
\* SMU command file; no core is skipped and no opcode write precedes its args
\* write.
TwoWritesPerCoreInOrder(command, cores) ==
    /\ IsOk(command)
    /\ Len(command.ok) = 2 * cores
    /\ \A c \in 0 .. cores - 1 :
          /\ command.ok[2 * c + 1].tee = SmuArgsFile
          /\ command.ok[2 * c + 1].echo \div 1048576 = (IF c >= 8 THEN 256 ELSE 0) + (c % 8)
          /\ command.ok[2 * c + 2] = Write("0x35", Mp1SmuCmdFile)

C17_PboWritesPerCore ==
    /\ manager_pbo_command # None =>
          TwoWritesPerCoreInOrder(manager_pbo_command, physical_cores)
    /\ applier_pbo_command # None =>
          TwoWritesPerCoreInOrder(applier_pbo_command, physical_cores)

\* The same property of the builder of the control tab alone.
C17_ManagerWritesPerCore ==
    manager_pbo_command # None =>
        TwoWritesPerCoreInOrder(manager_pbo_command, physical_cores)

\* C19: after a privileged invocation ends with an execution error (a failure
\* other than the user's cancellation), the dropdown that was changed for the
\* attempt is back at its pre-attempt value.  The handler runs on a change of the
\* selected item, so the pre-attempt value differs from the item the attempt was
\* made for: when the failure callback has run, the dropdown no longer shows
\* that item, or its reset waits in the main loop's queue.
ExecutionErrorPending(control) ==
    /\ idle_queue # <<>>
    /\ Head(idle_queue).control = control
    /\ Head(idle_queue).fn = "failure_callback"
    /\ Head(idle_queue).arg # "canceled"

ResetQueued(control, queue) ==
    \E j \in DOMAIN queue : queue[j].control = control /\ queue[j].fn = "set_selected_0"

C19_ErrorRevertsControl ==
    [][/\ (ExecutionErrorPending("governor") /\ RunIdleCallback) =>
             \/ governor_dropdown'.selected # Head(idle_queue).selected
             \/ ResetQueued("governor", idle_queue')
       /\ (ExecutionErrorPending("epb") /\ RunIdleCallback) =>
             \/ epb_dropdown'.selected # Head(idle_queue).selected
             \/ ResetQueued("epb", idle_queue')]_vars

\* C20: while monitoring has not been stopped, a monitor tick in which a
\* sampling step raises still schedules the monitor timer again: after every
\* tick, as long as monitor_task_id is set, GLib holds the timeout source of
\* that id, so a later tick follows.
C20_TickErrorKeepsTimer ==
    (last_tick # None /\ monitor_task_id # None) =>
        /\ last_tick.ok.rescheduled
        /\ monitor_task_id.ok \in glib_timeouts

\* A tick in which a step raised has run, and the timer is pending again.
C20_Witness ==
    /\ last_tick # None
    /\ last_tick.ok.raised = "read_package_temperature"
    /\ last_tick.ok.logged
    /\ monitor_task_id # None
    /\ glib_timeouts = {monitor_task_id.ok}

\* C21: after each update_throttle tick, is_throttling is true exactly when the
\* vendor tag is Intel and some thread's counter read in this tick is strictly
\* greater than the value stored from that thread's previous read; it is false
\* before the first tick, on a first read and on a non-Intel vendor, and a
\* true flag of an earlier tick does not carry over.
ThrottleIncrease(tick) ==
    \E k \in 1 .. Len(tick.reads) :
        LET i == tick.reads[k][1]
            current == tick.reads[k][2]
        IN  /\ IsOk(current)
            /\ tick.before[i + 1] # None
            /\ current.ok > tick.before[i + 1].ok

C21_ThrottleFlagPerTick ==
    /\ throttle_cpu_file_search # None /\ throttle_tick = None => ~is_throttling
    /\ throttle_tick # None =>
          (is_throttling <=>
              /\ throttle_cpu_file_search.cpu_type = "Intel"
              /\ ThrottleIncrease(throttle_tick.ok))

\* A tick that found an increase on one thread and none on the other.
C21_Witness ==
    /\ throttle_tick # None
    /\ is_throttling
    /\ thermal_throttle_label.visible
    /\ Len(throttle_tick.ok.reads) = MaxLocThreads
    /\ \E k \in 1 .. Len(throttle_tick.ok.reads) :
          /\ IsOk(throttle_tick.ok.reads[k][2])
          /\ throttle_tick.ok.before[throttle_tick.ok.reads[k][1] + 1] = throttle_tick.ok.reads[k][2]

\* C22: _determine_physical_cores returns the result of the first applicable
\* method in the order (a) cpu cores field cross-checked against the summed
\* core-id sets, (b) summed core-id sets, (c) more than one cluster, (d) exactly
\* one CPU part, (e) physical-package count, (f) siblings versus cores; a
\* method is used only when its fields were observed; when none of (a)-(f)
\* applies the result is processor_count // 2.
MethodApplies(c, k) ==
    LET total == SumOfLens(c.core_ids_per_physical)
        cores_seen == c.cpu_cores_field # None /\ c.cpu_cores_field.ok > 0
        siblings_seen == c.siblings_field # None /\ c.siblings_field.ok > 0
    IN  CASE k = 1 -> /\ cores_seen /\ c.physical_ids # {} /\ total > 0
                      /\ Abs(c.cpu_cores_field.ok - total) <= 1
          [] k = 2 -> total > 0
          [] k = 3 -> Cardinality(c.clusters) > 1 /\ c.processor_count >= Cardinality(c.clusters)
          [] k = 4 -> Cardinality(c.cpu_parts) = 1
          [] k = 5 -> c.physical_ids # {}
          [] k = 6 -> /\ siblings_seen
                      /\ \/ cores_seen /\ c.siblings_field.ok > c.cpu_cores_field.ok
                         \/ c.siblings_field.ok = c.processor_count

C22_FirstApplicableMethodWins ==
    determined_cores # None =>
        LET r == determined_cores.ok
        IN  IF \E k \in 1 .. 6 : MethodApplies(cpuinfo, k)
            THEN /\ r.method \in 1 .. 6
                 /\ MethodApplies(cpuinfo, r.method)
                 /\ \A k \in 1 .. r.method - 1 : ~MethodApplies(cpuinfo, k)
            ELSE r.cores = cpuinfo.processor_count \div 2

\* The methods (a)-(f) alone do follow the claimed order: whenever one of
\* them applies, the first applicable one is the one used.
C22_OrderOfObservedMethods ==
    determined_cores # None /\ (\E k \in 1 .. 6 : MethodApplies(cpuinfo, k)) =>
        /\ determined_cores.ok.method \in 1 .. 6
        /\ MethodApplies(cpuinfo, determined_cores.ok.method)
        /\ \A k \in 1 .. determined_cores.ok.method - 1 : ~MethodApplies(cpuinfo, k)

\* C23: after the Locator is constructed, by discovery or by reload of the
\* persisted table, every per-thread mapping of cpu_files has only keys within
\* 0 .. thread_count - 1.
C23_ThreadKeysWithinCount ==
    locator # None =>
        \A r \in DOMAIN locator.ok.cpu_files :
            DOMAIN locator.ok.cpu_files[r] \subseteq 0 .. locator.ok.thread_count - 1

\* Discovery alone keeps the keys within the thread count.
C23_DiscoveryKeysWithinCount ==
    (locator # None /\ rediscovered) =>
        \A r \in DOMAIN locator.ok.cpu_files :
            DOMAIN locator.ok.cpu_files[r] \subseteq 0 .. locator.ok.thread_count - 1

\* C24: reloading the table that initialize_cpu_files persisted yields the
\* state of the discovery that saved it: the same cpu_directory, per-thread
\* mappings with integer thread keys, singleton paths and vendor tag, also for
\* an Intel CPU without a no_turbo file.
ReloadedOwnTable ==
    /\ locator # None
    /\ ~rediscovered
    /\ cache_file = Ok(SavedTable(Discovered(machine)))

C24_ReloadEqualsDiscovery ==
    ReloadedOwnTable => locator.ok = Discovered(machine)

\* All of the reloaded state but the vendor tag is the discovered one.
C24_ReloadEqualsDiscoveryButVendor ==
    ReloadedOwnTable =>
        [locator.ok EXCEPT !.cpu_type = "?"] = [Discovered(machine) EXCEPT !.cpu_type = "?"]

\* C25: after any sequence of page switches, interval changes, boost toggles
\* and timer ticks, at most one monitor timer source and at most one control
\* timer source are registered, and monitor_task_id / control_task_id name
\* exactly the registered source, or are None when none is registered.
NamesTheOnlySource(task_id, sources) ==
    IF task_id = None THEN sources = {} ELSE sources = {task_id.ok}

C25_OneSourcePerTimer ==
    /\ NamesTheOnlySource(monitor_task_id, glib_timeouts)
    /\ NamesTheOnlySource(control_task_id, glib_control_timeouts)

\* Both timers are registered and both have ticked and scheduled themselves again.
C25_Witness ==
    /\ monitor_task_id # None /\ control_task_id # None
    /\ last_tick # None /\ last_tick.ok.rescheduled
    /\ control_task_id # Ok(MaxSourceIds + 1)
    /\ update_interval # 10

\* C26: the control timer is registered only while the control page is shown
\* and the monitor timer only while the monitor page is shown, whatever page
\* switches, ticks, interval changes and boost toggles with their callbacks
\* came before.
C26_TimersOnlyOfPageShown ==
    /\ glib_control_timeouts # {} => current_page = 1
    /\ glib_timeouts # {} => current_page = 0

\* Without interval changes, it is the callback of a boost toggle that
\* registers the control timer while the monitor page is shown.
C26_CallbackKeepsPage ==
    [][RunBoostCallback /\ current_page = 0 => glib_control_timeouts' = {}]_vars

\* Page switches and ticks alone keep each timer to its page.
C26_SwitchAndTicksKeepPage ==
    [][(OnTabSwitch \/ MonitorTick \/ RunControlTasks)
          /\ C26_TimersOnlyOfPageShown => C26_TimersOnlyOfPageShown']_vars

\* C27: the min_speeds, max_speeds and checked_threads that the success
\* callback of apply_cpu_clock_speed_limits stores in the ledger are those the
\* executed command carried: the command built from the stored values is the
\* command that ran, also when the user moved a scale or toggled a thread
\* checkbutton while the invocation was in flight.
CommandOfLedger(ledger) ==
    SpeedCommandList(cpu_file_search, ledger["min_speeds"], ledger["max_speeds"],
                     ledger["checked_threads"], 0)

C27_LedgerEqualsExecutedCommand ==
    [][(SpeedSuccessPending /\ RunIdleCallback) =>
          CommandOfLedger(applied_settings') = Head(idle_queue).command]_vars

\* With no edit since the program started, the stored values are the executed ones.
C27_LedgerOfUntouchedScales ==
    [][(SpeedSuccessPending /\ RunIdleCallback /\ user_edits = 0) =>
          CommandOfLedger(applied_settings') = Head(idle_queue).command]_vars


\* ---- C28

Controls == {"speed", "governor", "boost", "tdp", "pbo", "epb"}

\* The privileged invocations a control started whose callback has not run:
\* threads still running and callbacks waiting in the main loop's queue.
InFlightOf(c) ==
    Cardinality({k \in DOMAIN running : ControlOf(running[k]) = c})
      + Cardinality({k \in DOMAIN idle_queue :
                        /\ ControlOf(idle_queue[k]) = c
                        /\ idle_queue[k].fn \in {"success_callback", "failure_callback"}})

SensitiveOf(c) ==
    CASE c = "speed" -> apply_max_min_button
      [] c = "governor" -> governor_dropdown.sensitive
      [] c = "epb" -> epb_dropdown.sensitive
      [] c = "boost" -> boost_checkbutton.sensitive
      [] c = "tdp" -> apply_tdp_button
      [] OTHER -> apply_pbo_button

\* A step in which the program itself changes a control: the main loop takes
\* the head of its queue, the reset of a dropdown to its placeholder or a
\* callback, which may refresh the boost checkbutton or queue a reset.
ProgrammaticChange ==
    /\ idle_queue # <<>>
    /\ LET before == QueueTags(idle_queue)
           after == QueueTags(idle_queue')
       IN  \/ after = Tail(before)
           \/ /\ Head(before)[2] = "failure_callback"
              /\ after = Tail(before) \o <<<<Head(before)[1], "set_selected_0">>>>

\* C28: each control has at most one privileged invocation in flight and is
\* insensitive while it has one; a step of the main loop that resets a
\* dropdown to its placeholder or refreshes the boost checkbutton starts no
\* invocation.
C28_OneInvocationPerControl ==
    /\ [](\A c \in Controls :
             /\ InFlightOf(c) <= 1
             /\ InFlightOf(c) = 1 => ~SensitiveOf(c))
    /\ [][ProgrammaticChange => running' = running]_in_flight

\* A governor invocation is in flight, the dropdown insensitive, while the
\* reset of the dropdown that an earlier cancellation queued is still waiting.
C28_Witness ==
    /\ InFlightOf("governor") = 1
    /\ ~governor_dropdown.sensitive
    /\ \E k \in DOMAIN idle_queue :
          idle_queue[k].control = "governor" /\ idle_queue[k].fn = "set_selected_0"


\* ---- C29

Sensitivity == [c \in Controls |-> SensitiveOf(c)]

RowsOf(snapshot, id) == {k \in DOMAIN snapshot : snapshot[k][1] = id}

\* C30: after a tick that computed loads, every load reported under an id is
\* the load of a previous row and a current row that both carry that id.
C30_LoadFromRowsOfSameId ==
    (calc_args # None /\ IsOk(calc_result)) =>
        LET prev == calc_args.ok[1].ok
            curr == calc_args.ok[2].ok
        IN  \A id \in DOMAIN calc_result.ok :
               \E p \in RowsOf(prev, id), c \in RowsOf(curr, id) :
                  calc_load(prev[p], curr[c]) = Ok(calc_result.ok[id])

\* The same for ticks whose two snapshots list the same ids in the same order.
C30_LoadFromRowsOfSameIdIfSameRows ==
    (/\ calc_args # None /\ IsOk(calc_result)
     /\ Len(calc_args.ok[1].ok) = Len(calc_args.ok[2].ok)
     /\ \A k \in DOMAIN calc_args.ok[1].ok :
           calc_args.ok[1].ok[k][1] = calc_args.ok[2].ok[k][1]) =>
        LET prev == calc_args.ok[1].ok
            curr == calc_args.ok[2].ok
        IN  \A id \in DOMAIN calc_result.ok :
               \E p \in RowsOf(prev, id), c \in RowsOf(curr, id) :
                  calc_load(prev[p], curr[c]) = Ok(calc_result.ok[id])

\* A tick that read a snapshot with rows leaves it in prev_stat.
C30_TickReplacesPrevStat ==
    calc_args # None => prev_stat = calc_args.ok[2]

====
